---- MODULE Spec2Model ----
(***************************************************************************)
(* Recruitment backend: the document-ingestion and flow-orchestration      *)
(* pipeline (create_job_offer, process_document, LangflowClient,           *)
(* parse_skills_response).                                                 *)
(***************************************************************************)
EXTENDS Integers, Sequences, FiniteSets, TLC

(***************************************************************************)
(* Text.  A text is a sequence of character symbols.  " " and "\n" are the *)
(* whitespace symbols; every other symbol is a non-whitespace lexeme.      *)
(***************************************************************************)
Whitespace == {" ", "\n"}

IsSpace(c) == c \in Whitespace

\* str.strip(): drop leading and trailing whitespace.
RECURSIVE LStrip(_)
LStrip(s) == IF s # <<>> /\ IsSpace(Head(s)) THEN LStrip(Tail(s)) ELSE s

RECURSIVE RStrip(_)
RStrip(s) ==
    IF s # <<>> /\ IsSpace(s[Len(s)]) THEN RStrip(SubSeq(s, 1, Len(s) - 1)) ELSE s

Strip(s) == RStrip(LStrip(s))

\* "needle in haystack" for a content type given as a sequence of fragments.
Contains(ct, frag) == \E i \in 1..Len(ct) : ct[i] = frag

\* str.lower() on one fragment of a content type.
LowerFrag(f) ==
    CASE f = "PDF" -> "pdf"
      [] f = "Application/" -> "application/"
      [] OTHER -> f

Lower(ct) == [i \in 1..Len(ct) |-> LowerFrag(ct[i])]

(***************************************************************************)
(* Documents (UploadFile): a declared content type and a byte payload.     *)
(* A content type is written as the sequence of its fragments, so that the *)
(* substring tests of extract_text_from_document can be computed.          *)
(***************************************************************************)
CT_PDF == <<"application/", "pdf">>
CT_MSWORD == <<"application/", "ms", "word">>
CT_DOCX == <<"application/vnd.openxmlformats-office", "doc", "ument.", "word",
             "processingml.", "doc", "ument">>
CT_TEXT == <<"text/plain">>

ALLOWED_DOCUMENT_TYPES == {CT_PDF, CT_MSWORD, CT_DOCX, CT_TEXT}

\* Declared types outside the allow-list: an image, a spreadsheet, an
\* upper-case spelling of pdf, a pdf-like vendor type, text/plain with a
\* parameter, and no declared type at all (the empty sequence).
CT_PNG == <<"image/png">>
CT_XLS == <<"application/vnd.ms-excel">>
CT_PDF_UPPER == <<"Application/", "PDF">>
CT_XPDF == <<"application/x-", "pdf">>
CT_TEXT_CHARSET == <<"text/plain", "; charset=utf-8">>
CT_NONE == <<>>

ContentTypes ==
    ALLOWED_DOCUMENT_TYPES
        \cup {CT_PNG, CT_XLS, CT_PDF_UPPER, CT_XPDF, CT_TEXT_CHARSET, CT_NONE}

\* A payload is described by its length in bytes and by what the two
\* decoders make of it: bytes.decode('utf-8') and PyPDF2.PdfReader.
Undecodable == [ok |-> FALSE, text |-> <<>>]
Utf8(t) == [ok |-> TRUE, text |-> t]
Unreadable == [ok |-> FALSE, pages |-> <<>>]
Pdf(ps) == [ok |-> TRUE, pages |-> ps]

Payloads ==
    { [size |-> 0, utf8 |-> Utf8(<<>>), pdf |-> Unreadable],
      [size |-> 2, utf8 |-> Utf8(<<" ", "\n">>), pdf |-> Unreadable],
      [size |-> 6, utf8 |-> Utf8(<<"Go", " ", "dev">>), pdf |-> Unreadable],
      [size |-> 4, utf8 |-> Undecodable, pdf |-> Unreadable],
      [size |-> 5, utf8 |-> Undecodable, pdf |-> Pdf(<<>>)],
      [size |-> 7, utf8 |-> Undecodable, pdf |-> Pdf(<< <<>>, <<" ">> >>)],
      [size |-> 9, utf8 |-> Undecodable, pdf |-> Pdf(<< <<"Go">>, <<>> >>)] }

Documents == [content_type : ContentTypes, payload : Payloads]

(***************************************************************************)
(* Results of the document functions.  exc names the exception that        *)
(* leaves the function ("none" when it returns), status and detail are the *)
(* HTTPException's fields, text is the returned text and reads counts the  *)
(* document.read() calls made.                                             *)
(***************************************************************************)
Returned(t, n) ==
    [exc |-> "none", status |-> 0, detail |-> "", text |-> t, reads |-> n]

Raised(e, st, d, n) ==
    [exc |-> e, status |-> st, detail |-> d, text |-> <<>>, reads |-> n]

HTTP_400_BAD_REQUEST == 400
HTTP_500_INTERNAL_SERVER_ERROR == 500

DetailBadType == "File must be a PDF, Word document or a text file"
DetailNoText == "Could not extract text from document"
DetailPdf == "Error extracting text from PDF"
DetailExtract == "Error extracting text from document"
DetailUnexpected == "Error processing document"

validate_document_type(document) ==
    IF document.content_type \notin ALLOWED_DOCUMENT_TYPES
    THEN Raised("HTTPException", HTTP_400_BAD_REQUEST, DetailBadType, 0)
    ELSE Returned(<<>>, 0)

\* text += page.extract_text() + "\n" for every page, in order.
RECURSIVE PagesText(_)
PagesText(pages) ==
    IF pages = <<>> THEN <<>>
    ELSE Head(pages) \o <<"\n">> \o PagesText(Tail(pages))

extract_text_from_pdf(pdf_file) ==
    IF pdf_file.payload.pdf.ok
    THEN Returned(PagesText(pdf_file.payload.pdf.pages), 1)
    ELSE Raised("DocumentProcessingError", 0, DetailPdf, 1)

\* The placeholder strings built from len(content).
BinaryPlaceholder(n) ==
    <<"Document content (binary):", " ", ToString(n), " ", "bytes">>

UnknownPlaceholder(ct, n) ==
    <<"Unknown document type:", " ">> \o ct
        \o <<",", " ", "size:", " ", ToString(n), " ", "bytes">>

\* Faulty variant: no try/except around the extraction; the error escapes as raised.
RethrowAsRaised(r) == r

\* except Exception as e: raise DocumentProcessingError(...)
WrapExtractionError(r) ==
    IF r.exc = "none" THEN r
    ELSE Raised("DocumentProcessingError", 0, DetailExtract, r.reads)

extract_text_from_document(document) ==
    LET content_type == Lower(document.content_type)
        r == IF Contains(content_type, "pdf")
             THEN extract_text_from_pdf(document)
             ELSE IF Contains(content_type, "docx") \/ Contains(content_type, "doc")
                     \/ Contains(content_type, "word")
             THEN Returned(BinaryPlaceholder(document.payload.size), 1)
             ELSE IF Contains(content_type, "text/plain")
             THEN IF document.payload.utf8.ok
                  THEN Returned(document.payload.utf8.text, 1)
                  ELSE Raised("UnicodeDecodeError", 0, "", 1)
             ELSE Returned(UnknownPlaceholder(content_type, document.payload.size), 1)
    IN  WrapExtractionError(r)

\* Faulty variant: the emptiness test without strip().
NoTextUnstripped(extracted_text) == extracted_text = <<>>

\* not extracted_text or len(extracted_text.strip()) == 0
NoTextExtracted(extracted_text) ==
    extracted_text = <<>> \/ Len(Strip(extracted_text)) = 0

process_document(document) ==
    LET v == validate_document_type(document)
        x == extract_text_from_document(document)
        r == IF v.exc # "none" THEN v
             ELSE IF x.exc # "none" THEN x
             ELSE IF NoTextExtracted(x.text)
             THEN Raised("HTTPException", HTTP_400_BAD_REQUEST, DetailNoText, x.reads)
             ELSE x
    IN  CASE r.exc = "none" -> r
          [] r.exc = "DocumentProcessingError" ->
                Raised("HTTPException", HTTP_400_BAD_REQUEST, r.detail, r.reads)
          [] r.exc = "HTTPException" -> r
          [] OTHER ->
                Raised("HTTPException", HTTP_500_INTERNAL_SERVER_ERROR,
                       DetailUnexpected, r.reads)

(***************************************************************************)
(* JSON values as json.loads and response.json() produce them: a record    *)
(* with a type tag t and a payload v.                                      *)
(*   "str": v is the text;  "num": v is <<digit>>;  "null": v is <<>>;     *)
(*   "arr": v is the sequence of elements;                                 *)
(*   "obj": v is the sequence of <<key text, value>> members.              *)
(***************************************************************************)
JStr(t) == [t |-> "str", v |-> t]
JNum(d) == [t |-> "num", v |-> <<d>>]
JNull == [t |-> "null", v |-> <<>>]
JArr(items) == [t |-> "arr", v |-> items]
JObj(members) == [t |-> "obj", v |-> members]

\* isinstance(data, dict) and key in data
HasKey(data, key) ==
    data.t = "obj" /\ \E i \in 1..Len(data.v) : data.v[i][1] = key

\* data[key] for a dict that has the key: the last member with that key.
GetKey(data, key) ==
    LET i == CHOOSE k \in 1..Len(data.v) :
                 /\ data.v[k][1] = key
                 /\ \A m \in (k + 1)..Len(data.v) : data.v[m][1] # key
    IN  data.v[i][2]

(***************************************************************************)
(* json.loads on a text.  The scanner works on character symbols: the six  *)
(* structural characters, the double quote, whitespace, the digit "1",     *)
(* the literal "null", and word symbols, which are valid only inside a     *)
(* string literal.  A result is [ok, val, next]; ok = FALSE stands for     *)
(* json.JSONDecodeError.                                                   *)
(***************************************************************************)
Q == "\""

ParseFail == [ok |-> FALSE, val |-> JNull, next |-> 0]
ParseOk(val, next) == [ok |-> TRUE, val |-> val, next |-> next]

RECURSIVE SkipWs(_, _)
SkipWs(s, i) == IF i <= Len(s) /\ IsSpace(s[i]) THEN SkipWs(s, i + 1) ELSE i

\* The index of the quote closing the string literal opened before i; 0 when
\* the literal is unterminated or holds a raw control character.
RECURSIVE CloseQuote(_, _)
CloseQuote(s, i) ==
    IF i > Len(s) \/ s[i] = "\n" THEN 0
    ELSE IF s[i] = Q THEN i
    ELSE CloseQuote(s, i + 1)

ParseString(s, i) ==
    IF i > Len(s) \/ s[i] # Q THEN ParseFail
    ELSE LET k == CloseQuote(s, i + 1)
         IN  IF k = 0 THEN ParseFail
             ELSE ParseOk(JStr(SubSeq(s, i + 1, k - 1)), k + 1)

RECURSIVE ParseValue(_, _), ParseElements(_, _, _), ParseMembers(_, _, _)

ParseValue(s, i) ==
    LET j == SkipWs(s, i)
    IN  IF j > Len(s) THEN ParseFail
        ELSE CASE s[j] = Q -> ParseString(s, j)
               [] s[j] = "1" -> ParseOk(JNum("1"), j + 1)
               [] s[j] = "null" -> ParseOk(JNull, j + 1)
               [] s[j] = "[" ->
                    LET k == SkipWs(s, j + 1)
                    IN  IF k <= Len(s) /\ s[k] = "]"
                        THEN ParseOk(JArr(<<>>), k + 1)
                        ELSE ParseElements(s, k, <<>>)
               [] s[j] = "{" ->
                    LET k == SkipWs(s, j + 1)
                    IN  IF k <= Len(s) /\ s[k] = "}"
                        THEN ParseOk(JObj(<<>>), k + 1)
                        ELSE ParseMembers(s, k, <<>>)
               [] OTHER -> ParseFail

\* Elements of an array after "[": value ("," value)* "]".
ParseElements(s, i, acc) ==
    LET e == ParseValue(s, i)
        k == SkipWs(s, e.next)
    IN  IF ~e.ok \/ k > Len(s) THEN ParseFail
        ELSE IF s[k] = "]" THEN ParseOk(JArr(Append(acc, e.val)), k + 1)
        ELSE IF s[k] = "," THEN ParseElements(s, k + 1, Append(acc, e.val))
        ELSE ParseFail

\* Members of an object after "{": string ":" value ("," string ":" value)* "}".
ParseMembers(s, i, acc) ==
    LET key == ParseString(s, SkipWs(s, i))
        c == SkipWs(s, key.next)
        e == ParseValue(s, c + 1)
        k == SkipWs(s, e.next)
    IN  IF ~key.ok \/ c > Len(s) THEN ParseFail
        ELSE IF s[c] # ":" \/ ~e.ok \/ k > Len(s) THEN ParseFail
        ELSE IF s[k] = "}"
        THEN ParseOk(JObj(Append(acc, <<key.val.v, e.val>>)), k + 1)
        ELSE IF s[k] = ","
        THEN ParseMembers(s, k + 1, Append(acc, <<key.val.v, e.val>>))
        ELSE ParseFail

\* json.loads(text): one value, then nothing but whitespace.
json_loads(text) ==
    LET r == ParseValue(text, 1)
    IN  IF r.ok /\ SkipWs(text, r.next) > Len(text) THEN r ELSE ParseFail

(***************************************************************************)
(* re.search(json_pattern, text, re.DOTALL), the pattern being a tagged    *)
(* opening fence, whitespace, a lazy group, whitespace and a closing       *)
(* fence.  The three backticks of a fence are one symbol and the tag json  *)
(* the symbol after it.  The match starts at the leftmost tagged fence     *)
(* that has a later fence; group 1 is the text up to the first later       *)
(* fence, without its leading and trailing whitespace.                     *)
(***************************************************************************)
FENCE == "<backticks>"

FenceStarts(text) ==
    {i \in 1..(Len(text) - 1) :
        /\ text[i] = FENCE
        /\ text[i + 1] = "json"
        /\ \E k \in (i + 2)..Len(text) : text[k] = FENCE}

FenceSearch(text) ==
    IF FenceStarts(text) = {} THEN [found |-> FALSE, group1 |-> <<>>]
    ELSE LET i == CHOOSE a \in FenceStarts(text) : \A b \in FenceStarts(text) : a <= b
             k == CHOOSE a \in (i + 2)..Len(text) :
                      /\ text[a] = FENCE
                      /\ \A b \in (i + 2)..(a - 1) : text[b] # FENCE
         IN  [found |-> TRUE, group1 |-> Strip(SubSeq(text, i + 2, k - 1))]

(***************************************************************************)
(* parse_skills_response.  The argument is the Python object handed in: a  *)
(* JSON value; json.loads raises TypeError for one that is not a str.      *)
(* The result is [exc, value]: exc = "none" and the returned object, or    *)
(* the exception that escapes.                                             *)
(***************************************************************************)
EmptyList == JArr(<<>>)

Return(val) == [exc |-> "none", value |-> val]
Raise(e) == [exc |-> e, value |-> JNull]

\* Faulty variant: the fenced block is decoded without its own try/except.
FencedAttemptUnguarded(text) ==
    LET match == FenceSearch(text)
        inner == json_loads(match.group1)
    IN  IF match.found /\ ~inner.ok THEN Raise("JSONDecodeError")
        ELSE IF match.found /\ HasKey(inner.val, <<"skills">>)
        THEN Return(GetKey(inner.val, <<"skills">>))
        ELSE Return(EmptyList)

\* Faulty variant: a text that does not decode is given up at once.
FencedAttemptSkipped(text) == Return(EmptyList)

\* The except json.JSONDecodeError branch: the fenced-block attempt.
FencedAttempt(text) ==
    LET match == FenceSearch(text)
        inner == json_loads(match.group1)
    IN  IF match.found /\ inner.ok /\ HasKey(inner.val, <<"skills">>)
        THEN Return(GetKey(inner.val, <<"skills">>))
        ELSE Return(EmptyList)

parse_skills_response(skills_text) ==
    IF skills_text.t # "str" THEN Raise("TypeError")
    ELSE LET direct == json_loads(skills_text.v)
         IN  IF direct.ok
             THEN IF HasKey(direct.val, <<"skills">>)
                  THEN Return(GetKey(direct.val, <<"skills">>))
                  ELSE Return(EmptyList)
             ELSE FencedAttempt(skills_text.v)

(***************************************************************************)
(* The skills texts a flow may answer with: a JSON-ish body, optionally    *)
(* preceded by prose and/or an opening fence and followed by a closing     *)
(* fence and/or prose.                                                     *)
(***************************************************************************)
QStr(w) == <<Q, w, Q>>

Member(k, val) == QStr(k) \o <<":">> \o val

SkillObject(keys) ==
    <<"{">>
    \o (IF "skill" \in keys THEN Member("skill", QStr("Go")) \o <<",">> ELSE <<>>)
    \o (IF "expertise_level" \in keys
        THEN Member("expertise_level", QStr("senior")) \o <<",">> ELSE <<>>)
    \o (IF "priority" \in keys THEN Member("priority", QStr("high")) \o <<",">> ELSE <<>>)
    \o Member("note", <<"1">>) \o <<"}">>

SkillKeys == {"skill", "expertise_level", "priority"}

SkillsDoc(val) == <<"{">> \o Member("skills", val) \o <<"}">>

Bodies ==
    { SkillsDoc(<<"[", "]">>),
      SkillsDoc(<<"[">> \o SkillObject(SkillKeys) \o <<"]">>),
      SkillsDoc(<<"[">> \o SkillObject(SkillKeys) \o <<",">>
                        \o SkillObject(SkillKeys) \o <<"]">>),
      SkillsDoc(<<"[">> \o SkillObject({"skill", "expertise_level"}) \o <<"]">>),
      SkillsDoc(<<"[">> \o SkillObject(SkillKeys) \o <<",">>
                        \o SkillObject({"skill"}) \o <<"]">>),
      SkillsDoc(<<"[">> \o QStr("Go") \o <<"]">>),
      SkillsDoc(<<"1">>),
      SkillsDoc(<<"null">>),
      SkillsDoc(QStr("Go")),
      <<"{", "\n", " ">> \o Member("skills", <<" ", "[", " ", "]">>) \o <<"\n", "}">>,
      <<"{">> \o Member("skill", QStr("Go")) \o <<"}">>,
      <<"[", "1", "]">>,
      <<"[", "1", ",", "]">>,
      QStr("skills"),
      <<"null">>,
      <<"not", " ", "json", " ", "at", " ", "all">>,
      <<"{">> \o QStr("skills") \o <<":", "[">>,
      <<>> }

Prefixes ==
    { <<>>,
      <<"Here", " ", "you", " ", "go", ":", "\n">>,
      <<FENCE, "json", "\n">>,
      <<"Here", ":", "\n", FENCE, "json", "\n">>,
      <<FENCE, "\n">>,
      <<Q, FENCE, "json">> }

Suffixes ==
    { <<>>,
      <<"\n", FENCE>>,
      <<"\n", FENCE, "\n", "Thanks">>,
      <<FENCE, Q>> }

Texts == {p \o b \o x : p \in Prefixes, b \in Bodies, x \in Suffixes}

(***************************************************************************)
(* The flow client (LangflowClient).  Python None is written as the falsy  *)
(* value of the field's type: 0 for a timeout, "" for an API key, the      *)
(* empty mapping for headers, NoHttpClient for http_client.                *)
(***************************************************************************)
NoHeaders == [k \in {} |-> ""]

\* a or b
PyOr(a, b, falsy) == IF a # falsy THEN a ELSE b

\* opts.http_client: absent, or an httpx.AsyncClient built by the caller
\* with its own timeout configuration.
NoHttpClient == [injected |-> FALSE, timeout |-> 0]
InjectedHttpClient(t) == [injected |-> TRUE, timeout |-> t]

DEFAULT_TIMEOUT == 60
BASE_PATH == "/api/v1"
API_KEY_HEADER == "x-api-key"

_get_user_agent == "langflow-python-client/1.0.0"

\* LangflowClient.__init__(opts) under the environment's settings.
LangflowClient(opts, settings) ==
    LET given == PyOr(opts.default_headers, NoHeaders, NoHeaders)
    IN  [ base_url |-> settings.LANGFLOW_API_URL,
          base_path |-> BASE_PATH,
          api_key |-> PyOr(opts.api_key, settings.LANGFLOW_API_KEY, ""),
          timeout |-> PyOr(PyOr(opts.timeout, settings.LANGFLOW_TIMEOUT, 0),
                           DEFAULT_TIMEOUT, 0),
          default_headers |->
              IF "User-Agent" \in DOMAIN given THEN given
              ELSE [k \in DOMAIN given \cup {"User-Agent"} |->
                       IF k = "User-Agent" THEN _get_user_agent ELSE given[k]],
          http_client |-> opts.http_client ]

\* Faulty variant: the key is also sent as an Authorization header.
_set_api_key_twice(api_key, headers) ==
    [k \in DOMAIN headers \cup {API_KEY_HEADER, "Authorization"} |->
        IF k \in {API_KEY_HEADER, "Authorization"} THEN api_key ELSE headers[k]]

_set_api_key(api_key, headers) ==
    [k \in DOMAIN headers \cup {API_KEY_HEADER} |->
        IF k = API_KEY_HEADER THEN api_key ELSE headers[k]]

\* Faulty variant: the API key is set first and the merge lets the client's
\* default headers win over the call's.
_set_headers_defaults_win(self, headers) ==
    LET keyed == IF self.api_key # "" THEN _set_api_key(self.api_key, NoHeaders)
                 ELSE NoHeaders
        given == [k \in DOMAIN keyed \cup DOMAIN headers |->
                     IF k \in DOMAIN headers THEN headers[k] ELSE keyed[k]]
    IN  [k \in DOMAIN self.default_headers \cup DOMAIN given |->
            IF k \in DOMAIN self.default_headers THEN self.default_headers[k]
            ELSE given[k]]

_set_headers(self, headers) ==
    LET combined_headers ==
            [k \in DOMAIN self.default_headers \cup DOMAIN headers |->
                IF k \in DOMAIN headers THEN headers[k] ELSE self.default_headers[k]]
    IN  IF self.api_key # "" THEN _set_api_key(self.api_key, combined_headers)
        ELSE combined_headers

\* timeout = options.timeout or self.timeout
EffectiveTimeout(self, options) == PyOr(options.timeout, self.timeout, 0)

\* The timeout the transport of a call works under: the call's own
\* httpx.AsyncClient(timeout=timeout) gets the effective timeout, an injected
\* http_client keeps the one it was built with.
TransportTimeout(self, options) ==
    IF self.http_client.injected THEN self.http_client.timeout
    ELSE EffectiveTimeout(self, options)

\* url = base_url + base_path + path, as the sequence of its parts.
Url(self, options) == <<self.base_url, self.base_path>> \o options.path

StreamUrl(self, options) ==
    IF Contains(Url(self, options), "?")
    THEN Url(self, options) \o <<"&stream=true">>
    ELSE Url(self, options) \o <<"?stream=true">>

\* str.upper() on an HTTP method.
Upper(m) == CASE m = "get" -> "GET" [] m = "post" -> "POST" [] OTHER -> m

(***************************************************************************)
(* The remote side of one HTTP exchange: how long it takes, and whether it *)
(* ends in a response (status, body) or in a connection failure.  A body   *)
(* is JSON (with its decoded value) or not.                                *)
(***************************************************************************)
JsonBody(val) == [json |-> TRUE, value |-> val]
NotJsonBody == [json |-> FALSE, value |-> JNull]

\* A newline-delimited body, as the streaming variant of the service sends
\* it: its lines, each a text.  As a whole it is no JSON document.
NdjsonBody(lines) == [json |-> FALSE, value |-> JNull, lines |-> lines]

\* response.aiter_lines()
aiter_lines(response) ==
    IF "lines" \in DOMAIN response.body THEN response.body.lines ELSE <<>>

\* stream_response(): what the generator yields over the lines of the
\* response: json.loads(line) for every line that is not blank and decodes.
RECURSIVE stream_response(_)
stream_response(lines) ==
    IF lines = <<>> THEN <<>>
    ELSE IF Strip(Head(lines)) # <<>> /\ json_loads(Head(lines)).ok
    THEN <<json_loads(Head(lines)).val>> \o stream_response(Tail(lines))
    ELSE stream_response(Tail(lines))

ReasonPhrase(status) ==
    CASE status = 200 -> "OK"
      [] status = 201 -> "Created"
      [] status = 204 -> "No Content"
      [] status = 301 -> "Moved Permanently"
      [] status = 404 -> "Not Found"
      [] status = 500 -> "Internal Server Error"
      [] OTHER -> ""

Response(status, body) ==
    [status_code |-> status, reason_phrase |-> ReasonPhrase(status), body |-> body]

NoResponse == [status_code |-> 0, reason_phrase |-> "", body |-> NotJsonBody]

\* Faulty variant: only 4xx and 5xx count as failures.
is_success_below_400(response) == response.status_code < 400

\* response.is_success
is_success(response) == response.status_code >= 200 /\ response.status_code <= 299

Answers(latency, response) ==
    [kind |-> "response", latency |-> latency, response |-> response]
Refuses(latency) ==
    [kind |-> "connect_error", latency |-> latency, response |-> NoResponse]

\* What the transport hands back to the caller of client.get / client.request:
\* httpx.TimeoutException when the exchange outlasts the transport's timeout,
\* httpx.ConnectError (a RequestError) when the connection fails, else the
\* response.
Exchange(transport_timeout, remote) ==
    IF remote.latency > transport_timeout THEN "TimeoutException"
    ELSE IF remote.kind = "connect_error" THEN "ConnectError"
    ELSE "response"

(***************************************************************************)
(* Outcome of one client call.  exc is the exception that leaves the call  *)
(* ("none" when it returns), message its message parts, response the raw   *)
(* response a LangflowError carries, original_error the wrapped error of a *)
(* LangflowRequestError, value the returned object, sent the HTTP requests *)
(* handed to the transport, http_state the state the http_client is left   *)
(* in.                                                                     *)
(***************************************************************************)
Outcome(exc, message, response, original_error, value, sent, http_state) ==
    [ exc |-> exc, message |-> message, response |-> response,
      original_error |-> original_error, value |-> value, sent |-> sent,
      http_state |-> http_state ]

\* async with (self.http_client or httpx.AsyncClient(timeout=timeout)):
\* entering an httpx.AsyncClient that is not in its unopened state raises
\* RuntimeError; a client made for the call is always unopened.
CanEnter(self, http_state) == ~self.http_client.injected \/ http_state = "UNOPENED"

\* Faulty variant: the block is left without closing the transport.
__aexit__unclosed(state) == state

\* Leaving async with (httpx.AsyncClient.__aexit__): the transport the block
\* was entered with is closed, on return and on every exception alike.
__aexit__(state) == "CLOSED"

\* The state the http_client is in once the async with block is left.
AfterExit(self, http_state) ==
    IF self.http_client.injected THEN __aexit__(http_state) ELSE http_state

\* The request handed to the transport by LangflowClient.request.
RequestSent(self, options) ==
    [ method |-> Upper(options.method),
      url |-> Url(self, options),
      headers |-> _set_headers(self, options.headers),
      has_body |-> Upper(options.method) # "GET",
      timeout |-> TransportTimeout(self, options) ]

\* Faulty variant: a failed exchange is tried once more before the error is raised.
AttemptsWithRetry(got) == IF got = "response" THEN 1 ELSE 2

\* The try block hands one request to the transport (client.get or
\* client.request, once), whatever comes of it.
Attempts(got) == 1

\* The try block of LangflowClient.request and its except clauses.
RequestTry(self, options, remote, http_state) ==
    LET timeout == EffectiveTimeout(self, options)
        got == Exchange(TransportTimeout(self, options), remote)
        response == remote.response
        left == AfterExit(self, http_state)
    IN  CASE got = "TimeoutException" ->
                Outcome("LangflowRequestError", <<"Request timed out after", timeout>>,
                        NoResponse, got, JNull, Attempts(got), left)
          [] got = "ConnectError" ->
                Outcome("LangflowRequestError", <<"Request failed", 0>>,
                        NoResponse, got, JNull, Attempts(got), left)
          [] got = "response" /\ ~is_success(response) ->
                Outcome("LangflowError", <<response.reason_phrase, response.status_code>>,
                        response, "none", JNull, Attempts(got), left)
          [] got = "response" /\ is_success(response) /\ ~response.body.json ->
                Outcome("LangflowRequestError", <<"Unexpected error", 0>>,
                        NoResponse, "JSONDecodeError", JNull, Attempts(got), left)
          [] OTHER ->
                Outcome("none", <<"", 0>>, NoResponse, "none", response.body.value,
                        Attempts(got), left)

\* LangflowClient.request(options)
request(self, options, remote, http_state) ==
    IF ~CanEnter(self, http_state)
    THEN Outcome("RuntimeError", <<"Cannot reopen a client instance", 0>>,
                 NoResponse, "none", JNull, 0, http_state)
    ELSE RequestTry(self, options, remote, http_state)

\* The try block of LangflowClient.stream: client.stream(...) returns an
\* async context manager, and awaiting it raises TypeError before anything
\* is sent; the except Exception clause wraps it.
StreamTry(self, options, remote, http_state) ==
    Outcome("LangflowRequestError", <<"Unexpected stream error", 0>>,
            NoResponse, "TypeError", JNull, 0, AfterExit(self, http_state))

\* LangflowClient.stream(options)
stream(self, options, remote, http_state) ==
    IF ~CanEnter(self, http_state)
    THEN Outcome("RuntimeError", <<"Cannot reopen a client instance", 0>>,
                 NoResponse, "none", JNull, 0, http_state)
    ELSE StreamTry(self, options, remote, http_state)

\* RequestOptions(path, method, body, headers, timeout)
RequestOptions(path, method, body, headers, timeout) ==
    [path |-> path, method |-> method, body |-> body, headers |-> headers,
     timeout |-> timeout]

\* Flow.run(inputs, stream): payload = {"tweaks": tweaks, **inputs}, sent as
\* one POST to /run/{flow_id}.
FlowOptions(flow, inputs) ==
    RequestOptions(<<"/run/", flow.flow_id>>, "POST",
                   [k \in {"tweaks"} \cup DOMAIN inputs |->
                       IF k \in DOMAIN inputs THEN inputs[k] ELSE flow.tweaks],
                   [k \in {"Content-Type"} |-> "application/json"], 0)

run(flow, inputs, streaming, remote, http_state) ==
    IF streaming
    THEN stream(flow.client, FlowOptions(flow, inputs), remote, http_state)
    ELSE request(flow.client, FlowOptions(flow, inputs), remote, http_state)

(***************************************************************************)
(* Settings (core/config.py defaults, flow ids from the environment) and   *)
(* the process-wide client built from them.                                *)
(***************************************************************************)
LANGFLOW_TIMEOUT == 30

settings ==
    [ LANGFLOW_API_URL |-> "localhost:7860",
      LANGFLOW_API_KEY |-> "sdfsfsd",
      LANGFLOW_TIMEOUT |-> LANGFLOW_TIMEOUT,
      LANGFLOW_SUMMARY_GENERATION_FLOW_ID |-> "summary-flow",
      LANGFLOW_SKILLS_EXTRACTION_FLOW_ID |-> "skills-flow" ]

LangflowClientOptions(api_key, timeout, default_headers, http_client) ==
    [api_key |-> api_key, timeout |-> timeout, default_headers |-> default_headers,
     http_client |-> http_client]

langflow_client ==
    LangflowClient(LangflowClientOptions(settings.LANGFLOW_API_KEY,
                                         settings.LANGFLOW_TIMEOUT, NoHeaders,
                                         NoHttpClient),
                   settings)

\* LangflowClient.flow(flow_id, tweaks)
flow(self, flow_id, tweaks) == [client |-> self, flow_id |-> flow_id, tweaks |-> tweaks]

(***************************************************************************)
(* The flow result envelope and the leaf the pipeline reads from it:       *)
(* result["outputs"][0]["outputs"][0]["results"]["text"]["data"]["text"].  *)
(***************************************************************************)
Envelope(leaf) ==
    JObj(<< << <<"outputs">>, JArr(<< JObj(<< << <<"outputs">>, JArr(<<
        JObj(<< << <<"results">>, JObj(<< << <<"text">>, JObj(<< << <<"data">>,
            JObj(<< << <<"text">>, leaf >> >>) >> >>) >> >>) >> >>)
    >>) >> >>) >>) >> >>)

Got(val) == [ok |-> TRUE, val |-> val]
LookupError == [ok |-> FALSE, val |-> JNull]

\* obj[key] for a string key: KeyError or TypeError unless obj is a dict
\* holding the key.
Item(obj, key) ==
    IF obj.ok /\ HasKey(obj.val, <<key>>) THEN Got(GetKey(obj.val, <<key>>))
    ELSE LookupError

\* obj[0]: the first element of a list, the first character of a str;
\* IndexError, KeyError or TypeError otherwise.
First(obj) ==
    IF obj.ok /\ obj.val.t = "arr" /\ obj.val.v # <<>> THEN Got(obj.val.v[1])
    ELSE IF obj.ok /\ obj.val.t = "str" /\ obj.val.v # <<>>
    THEN Got(JStr(<<obj.val.v[1]>>))
    ELSE LookupError

LeafText(result) ==
    Item(Item(Item(Item(First(Item(First(Item(Got(result), "outputs")), "outputs")),
                        "results"), "text"), "data"), "text")

(***************************************************************************)
(* Records and repositories.                                               *)
(***************************************************************************)
\* JobOfferCreate(**job_offer_data): title is a str, summary and storage_url
\* are optional str fields; any other type fails validation.
JobOfferCreate(title, summary, storage_url) ==
    IF summary.t \in {"str", "null"}
    THEN [exc |-> "none",
          obj |-> [title |-> title, summary |-> summary.v, storage_url |-> storage_url]]
    ELSE [exc |-> "ValidationError",
          obj |-> [title |-> title, summary |-> <<>>, storage_url |-> storage_url]]

\* job_offer_repository.create(db, obj_in): the stored row, with a fresh id.
create(id, obj_in) ==
    [id |-> id, title |-> obj_in.title, summary |-> obj_in.summary,
     storage_url |-> obj_in.storage_url]

\* job_offer_repository.remove(db, id): the table without the row of that id.
remove(table, id) == {row \in table : row.id # id}

\* The skill rows that go with a removed job offer (ondelete CASCADE).
cascade(rows, id) == {row \in rows : row.job_offer_id # id}

\* str(x) of a decoded JSON value.
PyStr(x) ==
    CASE x.t = "str" -> x.v
      [] x.t = "num" -> x.v
      [] x.t = "null" -> <<"None">>
      [] x.t = "arr" -> <<"[...]">>
      [] OTHER -> <<"{...}">>

\* for skill_data in skills: the items the loop visits, or TypeError when
\* skills is not iterable.  A dict iterates its keys, a str its characters.
Iterate(skills) ==
    CASE skills.t = "arr" -> [exc |-> "none", items |-> skills.v]
      [] skills.t = "obj" ->
            [exc |-> "none",
             items |-> [i \in 1..Len(skills.v) |-> JStr(skills.v[i][1])]]
      [] skills.t = "str" ->
            [exc |-> "none", items |-> [i \in 1..Len(skills.v) |-> JStr(<<skills.v[i]>>)]]
      [] OTHER -> [exc |-> "TypeError", items |-> <<>>]

\* skill_data["skill"], skill_data["expertise_level"], skill_data["priority"]
RequiredSkillKeys == <<"skill", "expertise_level", "priority">>

SkillRowError(skill_data) ==
    IF skill_data.t # "obj" THEN "TypeError"
    ELSE IF \E i \in 1..3 : ~HasKey(skill_data, <<RequiredSkillKeys[i]>>) THEN "KeyError"
    ELSE "none"

JobOfferSkill(job_offer_id, skill_data, n) ==
    [ job_offer_id |-> job_offer_id, n |-> n,
      skill |-> PyStr(GetKey(skill_data, <<"skill">>)),
      expertise_level |-> PyStr(GetKey(skill_data, <<"expertise_level">>)),
      priority |-> PyStr(GetKey(skill_data, <<"priority">>)) ]

\* JobOfferSkillRepository.bulk_create: the rows are committed together
\* after the loop; an exception in the loop leaves none committed.
bulk_create(job_offer_id, skills) ==
    LET it == Iterate(skills)
        bad == {i \in 1..Len(it.items) : SkillRowError(it.items[i]) # "none"}
    IN  IF it.exc # "none" THEN [exc |-> it.exc, rows |-> {}]
        ELSE IF bad # {}
        THEN [exc |-> SkillRowError(it.items[CHOOSE i \in bad : \A j \in bad : i <= j]),
              rows |-> {}]
        ELSE [exc |-> "none",
              rows |-> {JobOfferSkill(job_offer_id, it.items[i], i) :
                            i \in 1..Len(it.items)}]

(***************************************************************************)
(* Object storage (MinioService).                                          *)
(***************************************************************************)
JOB_OFFERS_BUCKET == "job_offers"

\* MinioService.upload_file: the object put into the bucket.  file.read()
\* returns the bytes from the current file position on, so a file already
\* read to its end uploads as an empty object.
\* Faulty variant: the object is stored under another name than the one
\* returned.
upload_file_misnamed(file, bucket_name, file_pos, n) ==
    [ object_name |-> n + 1, bucket_name |-> bucket_name,
      length |-> IF file_pos = "start" THEN file.payload.size ELSE 0,
      content_type |-> file.content_type ]

upload_file(file, bucket_name, file_pos, n) ==
    [ object_name |-> n, bucket_name |-> bucket_name,
      length |-> IF file_pos = "start" THEN file.payload.size ELSE 0,
      content_type |-> file.content_type ]

(***************************************************************************)
(* Bounds and input sets of the job-offer pipeline.                        *)
(***************************************************************************)
MaxRequests == 2

Titles == {"Backend developer"}

\* Seconds a remote exchange may take, on both sides of the timeouts in use.
Latencies == {5, 20, 40, 70}

SummaryLeaves == {JStr(<<"Backend", " ", "role">>), JNum("1")}

\* Skills texts the flow service sends in the pipeline: each body bare and
\* inside a fenced block.
PipelineBodies ==
    { SkillsDoc(<<"[", "]">>),
      SkillsDoc(<<"[">> \o SkillObject(SkillKeys) \o <<"]">>),
      SkillsDoc(<<"[">> \o SkillObject({"skill", "expertise_level"}) \o <<"]">>),
      SkillsDoc(<<"[">> \o SkillObject(SkillKeys) \o <<",">>
                        \o SkillObject({"skill"}) \o <<"]">>),
      SkillsDoc(<<"[">> \o QStr("Go") \o <<"]">>),
      SkillsDoc(<<"1">>),
      <<"not", " ", "json", " ", "at", " ", "all">> }

PipelineTexts ==
    PipelineBodies
        \cup {<<FENCE, "json", "\n">> \o b \o <<"\n", FENCE>> : b \in PipelineBodies}

SkillsLeaves == {JStr(t) : t \in PipelineTexts} \cup {JNull}

\* What the flow service may do with one call: answer 2xx with an envelope,
\* with JSON of another shape or with a body that is no JSON, answer with an
\* error status, or refuse the connection; quickly or slowly.
FlowRemotes(leaves) ==
    {Answers(l, Response(200, JsonBody(Envelope(leaf)))) :
        l \in {20, 40}, leaf \in leaves}
    \cup {Answers(20, Response(st, body)) :
            st \in {200, 404, 500}, body \in {JsonBody(JObj(<<>>)), NotJsonBody}}
    \cup {Refuses(20)}

NoJobOffer == 0
NoReply == [status_code |-> 0, error |-> "none", error_status |-> 0]

VARIABLES
    pc,                 \* where the create_job_offer call in progress stands
    document, title,    \* its arguments
    file_pos,           \* read position of the uploaded file: "start" or "end"
    doc_result,         \* what process_document returned or raised
    extracted_text,
    object_name,        \* name of the uploaded object, 0 before the upload
    summary_result, skills_result,
    job_offer,          \* id bound to the local job_offer, NoJobOffer if unbound
    reply,              \* the HTTP reply of the call
    sent,               \* HTTP requests handed to the transport, per flow
    removed,            \* job-offer ids the call's except clause removed
    requests,           \* create_job_offer calls received so far
    storage,            \* objects in the bucket
    job_offers,         \* rows of job_offers
    next_id,            \* next value of the job_offers id sequence
    job_offers_skills   \* rows of job_offers_skills

\* A LangflowClient under test and the calls made on it.
VARIABLES
    opts,               \* the options the client was constructed with
    self,               \* the client, as __init__ left it
    http_state,         \* state of the injected http_client, "none" without one
    call,               \* the last call: mode, options, remote side, state before
    outcome,            \* what the last call returned or raised
    wire,               \* the request the last call handed to its transport
    transport,          \* state of the transport the last call entered
    calls               \* calls made so far

\* parse_skills_response under test.
VARIABLES
    parse_arg,          \* the argument of the last call
    parsed              \* what the last call returned or raised

\* add_candidate_to_job_offer and the tables it works on.
VARIABLES
    cpc,                \* where the add_candidate_to_job_offer call in progress stands
    frame,              \* its arguments and locals
    cand_reply,         \* the HTTP reply of the call
    scored,             \* fit-score requests made of the matching service
    candidates,         \* rows of candidates
    job_offer_candidates,   \* rows of job_offer_candidates
    cand_calls          \* add_candidate_to_job_offer calls received so far

\* extract_text_from_pdf, statement by statement.
VARIABLES
    pdf_pc,             \* where the extract_text_from_pdf call stands
    pdf_reader,         \* the opened PDF: its pages, in order
    page_num,           \* the loop variable (0-based)
    pdf_text,           \* the local text
    yielded,            \* pages extracted so far at each asyncio.sleep(0), in order
    unyielded           \* pages extracted since the last asyncio.sleep(0)

\* link_candidate_to_job_offer calls in progress, one per request task.
VARIABLES
    link_pc,            \* where each task's call stands
    link_args,          \* its arguments job_offer_id, candidate_id
    existing,           \* the local existing: the link rows the query found
    link_reply,         \* the HTTP reply of the call
    link_calls          \* calls each task has made so far

\* update_job_offer.
VARIABLES
    update_args,        \* the arguments of the last update_job_offer call
    update_reply,       \* its HTTP reply
    before,             \* the job_offers table as the call found it
    updates             \* update_job_offer calls made so far

pipeline_vars ==
    <<pc, document, title, file_pos, doc_result, extracted_text, object_name,
      summary_result, skills_result, job_offer, reply, sent, removed, requests,
      storage, job_offers, next_id, job_offers_skills>>

client_vars == <<opts, self, http_state, call, outcome, wire, transport, calls>>

parser_vars == <<parse_arg, parsed>>

candidate_vars ==
    <<cpc, frame, cand_reply, scored, candidates, job_offer_candidates, cand_calls>>

pdf_vars == <<pdf_pc, pdf_reader, page_num, pdf_text, yielded, unyielded>>

link_vars == <<link_pc, link_args, existing, link_reply, link_calls>>

update_vars == <<update_args, update_reply, before, updates>>

vars == <<pipeline_vars, client_vars, parser_vars, candidate_vars, pdf_vars, link_vars, update_vars>>

NoDocument == [content_type |-> CT_NONE, payload |-> [size |-> 0, utf8 |-> Undecodable,
                                                       pdf |-> Unreadable]]

PipelineInit ==
    /\ pc = "idle"
    /\ document = NoDocument
    /\ title = ""
    /\ file_pos = "start"
    /\ doc_result = Returned(<<>>, 0)
    /\ extracted_text = <<>>
    /\ object_name = 0
    /\ summary_result = JNull
    /\ skills_result = JNull
    /\ job_offer = NoJobOffer
    /\ reply = NoReply
    /\ sent = [summary |-> 0, skills |-> 0]
    /\ removed = {}
    /\ requests = 0
    /\ storage = {}
    /\ job_offers = {}
    /\ next_id = 1
    /\ job_offers_skills = {}

\* POST /: a new call of create_job_offer starts with fresh locals.
Receive ==
    /\ pc \in {"idle", "done", "failed"}
    /\ requests < MaxRequests
    /\ \E d \in Documents, t \in Titles : document' = d /\ title' = t
    /\ pc' = "start"
    /\ requests' = requests + 1
    /\ file_pos' = "start"
    /\ doc_result' = Returned(<<>>, 0)
    /\ extracted_text' = <<>>
    /\ object_name' = 0
    /\ summary_result' = JNull
    /\ skills_result' = JNull
    /\ job_offer' = NoJobOffer
    /\ reply' = NoReply
    /\ sent' = [summary |-> 0, skills |-> 0]
    /\ removed' = {}
    /\ UNCHANGED <<storage, job_offers, next_id, job_offers_skills>>
    /\ UNCHANGED <<client_vars, parser_vars, candidate_vars, pdf_vars, link_vars, update_vars>>

\* Faulty variant: the except clause never cleans up.
CleanupNever(bound) == FALSE

\* if 'job_offer' in locals()
CleanupNeeded(bound) == bound # NoJobOffer

\* Faulty variant: the error is swallowed and the call carries on with the
\* skills flow.
ExceptClauseCarriesOn(error, error_status) ==
    /\ pc' = "skills"
    /\ UNCHANGED <<job_offers, job_offers_skills, removed, reply>>

\* except Exception as e: remove the job offer if one was created, then
\* raise HTTPException(500).  error and error_status describe e.
ExceptClause(error, error_status) ==
    /\ job_offers' =
         IF CleanupNeeded(job_offer) THEN remove(job_offers, job_offer) ELSE job_offers
    /\ job_offers_skills' =
         IF CleanupNeeded(job_offer) THEN cascade(job_offers_skills, job_offer)
         ELSE job_offers_skills
    /\ removed' = IF CleanupNeeded(job_offer) THEN removed \cup {job_offer} ELSE removed
    /\ reply' = [status_code |-> HTTP_500_INTERNAL_SERVER_ERROR, error |-> error,
                 error_status |-> error_status]
    /\ pc' = "failed"

\* extracted_text, text_size_kb = await process_document(document)
ProcessDocument ==
    /\ pc = "start"
    /\ LET r == process_document(document)
       IN  /\ doc_result' = r
           /\ file_pos' = IF r.reads > 0 THEN "end" ELSE file_pos
           /\ IF r.exc = "none"
              THEN /\ extracted_text' = r.text
                   /\ pc' = "upload"
                   /\ UNCHANGED <<reply, removed, job_offers, job_offers_skills>>
              ELSE /\ ExceptClause(r.exc, r.status)
                   /\ UNCHANGED extracted_text
    /\ UNCHANGED <<document, title, object_name, summary_result, skills_result,
                   job_offer, sent, requests, storage, next_id>>
    /\ UNCHANGED <<client_vars, parser_vars, candidate_vars, pdf_vars, link_vars, update_vars>>

\* object_name = await minio_service.upload_file(...); await document.seek(0)
Upload ==
    /\ pc = "upload"
    /\ \E stored \in BOOLEAN :
         IF stored
         THEN /\ storage' = storage \cup
                    {upload_file(document, JOB_OFFERS_BUCKET, file_pos,
                                 Cardinality(storage) + 1)}
              /\ object_name' = Cardinality(storage) + 1
              /\ file_pos' = "start"
              /\ pc' = "summary"
              /\ UNCHANGED <<reply, removed, job_offers, job_offers_skills>>
         ELSE /\ ExceptClause("S3Error", 0)
              /\ UNCHANGED <<storage, object_name, file_pos>>
    /\ UNCHANGED <<document, title, doc_result, extracted_text, summary_result,
                   skills_result, job_offer, sent, requests, next_id>>
    /\ UNCHANGED <<client_vars, parser_vars, candidate_vars, pdf_vars, link_vars, update_vars>>

FlowInputs == [output_type |-> "text", input_type |-> "text"]

summary_flow(text) ==
    flow(langflow_client, settings.LANGFLOW_SUMMARY_GENERATION_FLOW_ID,
         [n \in {"Agent-gE9mt", "TextOutput-riQeq", "TextInput-cTRS8", "Prompt-kPUCU"} |->
             IF n = "TextInput-cTRS8" THEN <<"input_value", text>> ELSE <<>>])

skills_extraction_flow(text) ==
    flow(langflow_client, settings.LANGFLOW_SKILLS_EXTRACTION_FLOW_ID,
         [n \in {"Agent-tFpjL", "TextOutput-9JOx7", "TextInput-ZLrFC", "Prompt-NCiV2"} |->
             IF n = "TextInput-ZLrFC" THEN <<"input_value", text>> ELSE <<>>])

\* summary_result = await summary_flow.run({...})
RunSummary ==
    /\ pc = "summary"
    /\ \E remote \in FlowRemotes(SummaryLeaves) :
         LET out == run(summary_flow(extracted_text), FlowInputs, FALSE, remote, "none")
         IN  /\ sent' = [sent EXCEPT !.summary = @ + out.sent]
             /\ IF out.exc = "none"
                THEN /\ summary_result' = out.value
                     /\ pc' = "skills"
                     /\ UNCHANGED <<reply, removed, job_offers, job_offers_skills>>
                ELSE /\ ExceptClause(out.exc, out.response.status_code)
                     /\ UNCHANGED summary_result
    /\ UNCHANGED <<document, title, file_pos, doc_result, extracted_text, object_name,
                   skills_result, job_offer, requests, storage, next_id>>
    /\ UNCHANGED <<client_vars, parser_vars, candidate_vars, pdf_vars, link_vars, update_vars>>

\* skills_result = await skills_extraction_flow.run({...})
RunSkills ==
    /\ pc = "skills"
    /\ \E remote \in FlowRemotes(SkillsLeaves) :
         LET out == run(skills_extraction_flow(extracted_text), FlowInputs, FALSE,
                        remote, "none")
         IN  /\ sent' = [sent EXCEPT !.skills = @ + out.sent]
             /\ IF out.exc = "none"
                THEN /\ skills_result' = out.value
                     /\ pc' = "persist"
                     /\ UNCHANGED <<reply, removed, job_offers, job_offers_skills>>
                ELSE /\ ExceptClause(out.exc, out.response.status_code)
                     /\ UNCHANGED skills_result
    /\ UNCHANGED <<document, title, file_pos, doc_result, extracted_text, object_name,
                   summary_result, job_offer, requests, storage, next_id>>
    /\ UNCHANGED <<client_vars, parser_vars, candidate_vars, pdf_vars, link_vars, update_vars>>

\* The two leaf lookups, JobOfferCreate(**job_offer_data) and
\* job_offer_repository.create(db, obj_in=...).
Persist ==
    /\ pc = "persist"
    /\ LET summary_text == LeafText(summary_result)
           skills_text == LeafText(skills_result)
           obj_in == JobOfferCreate(title, summary_text.val, object_name)
       IN  IF ~summary_text.ok \/ ~skills_text.ok
           THEN /\ ExceptClause("LookupError", 0)
                /\ UNCHANGED <<job_offer, next_id>>
           ELSE IF obj_in.exc # "none"
           THEN /\ ExceptClause(obj_in.exc, 0)
                /\ UNCHANGED <<job_offer, next_id>>
           ELSE /\ job_offers' = job_offers \cup {create(next_id, obj_in.obj)}
                /\ job_offer' = next_id
                /\ next_id' = next_id + 1
                /\ pc' = "created"
                /\ UNCHANGED <<reply, removed, job_offers_skills>>
    /\ UNCHANGED <<document, title, file_pos, doc_result, extracted_text, object_name,
                   summary_result, skills_result, sent, requests, storage>>
    /\ UNCHANGED <<client_vars, parser_vars, candidate_vars, pdf_vars, link_vars, update_vars>>

\* skills = parse_skills_response(skills_text); bulk_create(...); return {...}
Finish ==
    /\ pc = "created"
    /\ LET skills == parse_skills_response(LeafText(skills_result).val)
           saved == bulk_create(job_offer, skills.value)
       IN  IF skills.exc # "none"
           THEN ExceptClause(skills.exc, 0)
           ELSE IF saved.exc # "none"
           THEN ExceptClause(saved.exc, 0)
           ELSE /\ job_offers_skills' = job_offers_skills \cup saved.rows
                /\ reply' = [status_code |-> 201, error |-> "none", error_status |-> 0]
                /\ pc' = "done"
                /\ UNCHANGED <<removed, job_offers>>
    /\ UNCHANGED <<document, title, file_pos, doc_result, extracted_text, object_name,
                   summary_result, skills_result, job_offer, sent, requests, storage, next_id>>
    /\ UNCHANGED <<client_vars, parser_vars, candidate_vars, pdf_vars, link_vars, update_vars>>

PipelineNext ==
    \/ Receive
    \/ ProcessDocument
    \/ Upload
    \/ RunSummary
    \/ RunSkills
    \/ Persist
    \/ Finish

(***************************************************************************)
(* Calls on one LangflowClient.  A call begins by entering the transport   *)
(* (async with) and handing its request over, and completes when the       *)
(* remote side has answered, failed or outlasted the timeout.              *)
(***************************************************************************)
MaxCalls == 2

\* Client configurations: the constructor's options and the environment.
ClientKeys == {<<"secret", "sdfsfsd">>, <<"", "sdfsfsd">>, <<"", "">>}
ClientTimeouts == {<<10, 30>>, <<0, 30>>, <<0, 0>>}
ClientHeaders == {NoHeaders, [k \in {"A"} |-> "1"], [k \in {"User-Agent"} |-> "mine"]}
HttpClients == {NoHttpClient, InjectedHttpClient(5), InjectedHttpClient(45)}

ClientConfigs ==
    {[opts |-> LangflowClientOptions(k[1], t[1], h, c),
      settings |-> [settings EXCEPT !.LANGFLOW_API_KEY = k[2],
                                    !.LANGFLOW_TIMEOUT = t[2]]] :
        k \in ClientKeys, t \in ClientTimeouts, h \in ClientHeaders, c \in HttpClients}

Clients == {LangflowClient(cfg.opts, cfg.settings) : cfg \in ClientConfigs}

\* Per-call options: method, header overrides and timeout override.
CallHeaders ==
    {NoHeaders, [k \in {"A", "B"} |-> IF k = "A" THEN "2" ELSE "3"],
     [k \in {API_KEY_HEADER} |-> "mine"]}

CallOptions ==
    {RequestOptions(<<"/run/", "flow-1">>, m, [k \in {"tweaks"} |-> NoHeaders], h, t) :
        m \in {"POST", "get"}, h \in CallHeaders, t \in {0, 10, 45}}

\* Lines of a streamed body: an event, a blank line, a line of spaces, a
\* line that is no JSON, and another event.
StreamedLines ==
    << <<"{">> \o Member("event", QStr("token")) \o <<"}">>,
       <<>>,
       <<" ", " ">>,
       <<"{", "oops">>,
       <<"{">> \o Member("event", QStr("end")) \o <<"}">> >>

Remotes ==
    {Answers(l, Response(st, body)) :
        l \in Latencies, st \in {200, 204, 301, 500},
        body \in {JsonBody(JObj(<<>>)), NotJsonBody, NdjsonBody(StreamedLines)}}
    \cup {Refuses(l) : l \in Latencies}

NoCall ==
    [ mode |-> "none", options |-> RequestOptions(<<>>, "", NoHeaders, NoHeaders, 0),
      remote |-> Refuses(0), pre_state |-> "none", phase |-> "idle" ]

NoOutcome == Outcome("pending", <<"", 0>>, NoResponse, "none", JNull, 0, "none")

NoRequest ==
    [method |-> "", url |-> <<>>, headers |-> NoHeaders, has_body |-> FALSE, timeout |-> 0]

ClientIdle ==
    /\ opts = LangflowClientOptions(settings.LANGFLOW_API_KEY, settings.LANGFLOW_TIMEOUT,
                                    NoHeaders, NoHttpClient)
    /\ self = langflow_client
    /\ http_state = "none"
    /\ call = NoCall
    /\ outcome = NoOutcome
    /\ wire = NoRequest
    /\ transport = "none"
    /\ calls = 0

ClientInit ==
    /\ \E cfg \in ClientConfigs :
         /\ opts = cfg.opts
         /\ self = LangflowClient(cfg.opts, cfg.settings)
    /\ http_state = IF self.http_client.injected THEN "UNOPENED" ELSE "none"
    /\ call = NoCall
    /\ outcome = NoOutcome
    /\ wire = NoRequest
    /\ transport = "none"
    /\ calls = 0

\* The call as the client runs it: request or stream.
Run(mode, options, remote, state) ==
    IF mode = "stream" THEN stream(self, options, remote, state)
    ELSE request(self, options, remote, state)

\* await client.request(options) / await client.stream(options) is called:
\* the transport is entered, or the call ends at once when it cannot be.
BeginCall ==
    /\ call.phase # "pending"
    /\ calls < MaxCalls
    /\ \E mode \in {"request", "stream"}, options \in CallOptions :
         IF CanEnter(self, http_state)
         THEN /\ call' = [mode |-> mode, options |-> options, remote |-> Refuses(0),
                          pre_state |-> http_state, phase |-> "pending"]
              /\ http_state' = IF self.http_client.injected THEN "OPENED" ELSE http_state
              /\ outcome' = NoOutcome
              /\ wire' = IF mode = "request" THEN RequestSent(self, options) ELSE NoRequest
              /\ transport' = "OPENED"
         ELSE /\ call' = [mode |-> mode, options |-> options, remote |-> Refuses(0),
                          pre_state |-> http_state, phase |-> "finished"]
              /\ outcome' = Run(mode, options, Refuses(0), http_state)
              /\ http_state' = outcome'.http_state
              /\ wire' = NoRequest
              /\ transport' = http_state
    /\ calls' = calls + 1
    /\ UNCHANGED <<opts, self, pipeline_vars, parser_vars, candidate_vars, pdf_vars, link_vars, update_vars>>

\* The remote side has done its part; the call returns or raises and the
\* async with block is left.
CompleteCall ==
    /\ call.phase = "pending"
    /\ \E remote \in Remotes :
         /\ call' = [call EXCEPT !.remote = remote, !.phase = "finished"]
         /\ outcome' = Run(call.mode, call.options, remote, call.pre_state)
    /\ http_state' = outcome'.http_state
    /\ transport' = __aexit__(transport)
    /\ UNCHANGED <<opts, self, wire, calls, pipeline_vars, parser_vars, candidate_vars, pdf_vars, link_vars, update_vars>>

ClientNext ==
    \/ BeginCall
    \/ CompleteCall

(***************************************************************************)
(* Calls of parse_skills_response on texts.                                *)
(***************************************************************************)
NotCalled == [exc |-> "pending", value |-> JNull]

ParserIdle ==
    /\ parse_arg = JNull
    /\ parsed = NotCalled

\* skills = parse_skills_response(skills_text)
CallParse ==
    /\ \E text \in Texts :
         /\ parse_arg' = JStr(text)
         /\ parsed' = parse_skills_response(JStr(text))
    /\ UNCHANGED <<pipeline_vars, client_vars, candidate_vars, pdf_vars, link_vars, update_vars>>

(***************************************************************************)
(* add_candidate_to_job_offer: the candidate pipeline.  Its collaborators  *)
(* (storage_service, document_processor, matching_service and the          *)
(* repositories' create_with_skills and job_offer_candidate_repository)    *)
(* are not part of the sources; they are modelled by their interfaces: a   *)
(* call returns a value or raises, and a create stores a row under a       *)
(* fresh id.                                                               *)
(***************************************************************************)
MaxCandidateCalls == 2

HTTP_201_CREATED == 201
HTTP_404_NOT_FOUND == 404

\* document_processor.common_skills: the vocabulary of technical skills.
common_skills == {"python", "sql"}

\* What document_processor.extract_skills may return: a list of dicts.
PythonSkill == [name |-> "python", level |-> "senior", years_experience |-> "5"]
TeamworkSkill == [name |-> "teamwork", level |-> "junior", years_experience |-> "1"]
UnlevelledSkill == [name |-> "sql", years_experience |-> "2"]

ExtractedSkills ==
    {<<>>, <<PythonSkill>>, <<PythonSkill, TeamworkSkill>>, <<TeamworkSkill, UnlevelledSkill>>}

CandidateNames == {"Ada", "Lin"}
CandidateOfferIds == {1, 2}
FitScores == {0, 75}

\* "technical" if skill["name"] in document_processor.common_skills else "soft"
SkillType(name) == IF name \in common_skills THEN "technical" ELSE "soft"

\* One entry of the skills comprehension; a missing key raises KeyError.
SkillEntry(skill) ==
    IF {"name", "level", "years_experience"} \subseteq DOMAIN skill
    THEN Return([name |-> skill.name, type |-> SkillType(skill.name),
                 expertise_level |-> skill.level,
                 years_experience |-> skill.years_experience])
    ELSE Raise("KeyError")

\* candidate_in = CandidateCreate(name=..., summary=..., skills=[...])
CandidateCreate(name, skills) ==
    IF \E i \in DOMAIN skills : SkillEntry(skills[i]).exc # "none"
    THEN [exc |-> "KeyError", obj |-> [name |-> name, skills |-> <<>>]]
    ELSE [exc |-> "none",
          obj |-> [name |-> name,
                   skills |-> [i \in DOMAIN skills |-> SkillEntry(skills[i]).value]]]

\* job_offer_repository.get(db, id): the rows of that id (none: None).
get(table, id) == {row \in table : row.id = id}

\* candidate_repository.create_with_skills(db, obj_in, storage_url): the
\* stored candidate row, with a fresh id.
create_with_skills(id, obj_in, storage_url) ==
    [id |-> id, name |-> obj_in.name, skills |-> obj_in.skills,
     storage_url |-> storage_url]

\* The candidate id one past the row's own.
MatchRequestNextId(job_offer_id, candidate) ==
    [job_offer_id |-> job_offer_id, candidate_id |-> candidate.id + 1]

\* match_candidate_to_job(db, job_offer_id=job_offer_id, candidate_id=candidate.id)
MatchRequest(job_offer_id, candidate) ==
    [job_offer_id |-> job_offer_id, candidate_id |-> candidate.id]

\* JobOfferCandidateCreate(job_offer_id=..., candidate_id=candidate.id, fit_score=...)
JobOfferCandidateCreate(job_offer_id, candidate, fit_score) ==
    [job_offer_id |-> job_offer_id, candidate_id |-> candidate.id,
     fit_score |-> fit_score]

\* job_offer_candidate_repository.create(db, obj_in): the stored link row.
create_link(id, obj_in) ==
    [id |-> id, job_offer_id |-> obj_in.job_offer_id,
     candidate_id |-> obj_in.candidate_id, fit_score |-> obj_in.fit_score]

Ids(table) == {row.id : row \in table}

FreshId(table) == Cardinality(table) + 1

\* The locals of a call: candidate and fit_score are unbound ({}) until
\* their assignments.
NewFrame(job_offer_id, name) ==
    [job_offer_id |-> job_offer_id, name |-> name, storage_path |-> "",
     skills |-> <<>>, candidate |-> {}, fit_score |-> {}]

NoCandidateReply == [status_code |-> 0, error |-> "none"]

CandidateIdle ==
    /\ cpc = "idle"
    /\ frame = NewFrame(0, "")
    /\ cand_reply = NoCandidateReply
    /\ scored = {}
    /\ candidates = {}
    /\ job_offer_candidates = {}
    /\ cand_calls = 0

\* An exception leaves the handler: the framework answers 500.
CandidateFails(error) ==
    /\ cpc' = "failed"
    /\ cand_reply' = [status_code |-> HTTP_500_INTERNAL_SERVER_ERROR, error |-> error]

\* POST /: a new call of add_candidate_to_job_offer starts with fresh locals.
CandReceive ==
    /\ cpc \in {"idle", "done", "failed"}
    /\ cand_calls < MaxCandidateCalls
    /\ \E job_offer_id \in CandidateOfferIds, name \in CandidateNames :
         frame' = NewFrame(job_offer_id, name)
    /\ cpc' = "verify"
    /\ cand_reply' = NoCandidateReply
    /\ cand_calls' = cand_calls + 1
    /\ UNCHANGED <<scored, candidates, job_offer_candidates>>
    /\ UNCHANGED <<pipeline_vars, client_vars, parser_vars, pdf_vars, link_vars, update_vars>>

\* job_offer = job_offer_repository.get(...); if not job_offer: raise 404
CandVerify ==
    /\ cpc = "verify"
    /\ IF get(job_offers, frame.job_offer_id) = {}
       THEN /\ cpc' = "failed"
            /\ cand_reply' = [status_code |-> HTTP_404_NOT_FOUND,
                              error |-> "HTTPException"]
       ELSE /\ cpc' = "upload"
            /\ UNCHANGED cand_reply
    /\ UNCHANGED <<frame, scored, candidates, job_offer_candidates, cand_calls>>
    /\ UNCHANGED <<pipeline_vars, client_vars, parser_vars, pdf_vars, link_vars, update_vars>>

\* storage_path = await storage_service.upload_file(document, "candidates")
CandUpload ==
    /\ cpc = "upload"
    /\ \/ /\ frame' = [frame EXCEPT !.storage_path = "candidates/" \o frame.name]
          /\ cpc' = "extract"
          /\ UNCHANGED cand_reply
       \/ /\ CandidateFails("StorageError")
          /\ UNCHANGED frame
    /\ UNCHANGED <<scored, candidates, job_offer_candidates, cand_calls>>
    /\ UNCHANGED <<pipeline_vars, client_vars, parser_vars, pdf_vars, link_vars, update_vars>>

\* get_file, extract_text, extract_skills, generate_summary.
CandExtract ==
    /\ cpc = "extract"
    /\ \/ /\ \E skills \in ExtractedSkills : frame' = [frame EXCEPT !.skills = skills]
          /\ cpc' = "create"
          /\ UNCHANGED cand_reply
       \/ /\ CandidateFails("DocumentError")
          /\ UNCHANGED frame
    /\ UNCHANGED <<scored, candidates, job_offer_candidates, cand_calls>>
    /\ UNCHANGED <<pipeline_vars, client_vars, parser_vars, pdf_vars, link_vars, update_vars>>

\* candidate_in = CandidateCreate(...); candidate = create_with_skills(...)
CandCreate ==
    /\ cpc = "create"
    /\ LET candidate_in == CandidateCreate(frame.name, frame.skills)
           candidate == create_with_skills(FreshId(candidates), candidate_in.obj,
                                           frame.storage_path)
       IN  \/ /\ candidate_in.exc # "none"
              /\ CandidateFails(candidate_in.exc)
              /\ UNCHANGED <<frame, candidates>>
           \/ /\ candidate_in.exc = "none"
              /\ \/ /\ candidates' = candidates \cup {candidate}
                    /\ frame' = [frame EXCEPT !.candidate = {candidate}]
                    /\ cpc' = "match"
                    /\ UNCHANGED cand_reply
                 \/ /\ CandidateFails("DatabaseError")
                    /\ UNCHANGED <<frame, candidates>>
    /\ UNCHANGED <<scored, job_offer_candidates, cand_calls>>
    /\ UNCHANGED <<pipeline_vars, client_vars, parser_vars, pdf_vars, link_vars, update_vars>>

\* fit_score = await matching_service.match_candidate_to_job(...): the
\* request is recorded with the candidate ids persisted when it is made.
CandMatch ==
    /\ cpc = "match"
    /\ \E candidate \in frame.candidate :
         LET asked == MatchRequest(frame.job_offer_id, candidate)
             Asked(answer) ==
                 [job_offer_id |-> asked.job_offer_id,
                  candidate_id |-> asked.candidate_id,
                  persisted |-> Ids(candidates), answer |-> answer]
         IN  \/ \E fit_score \in FitScores :
                  /\ scored' = scored \cup {Asked({fit_score})}
                  /\ frame' = [frame EXCEPT !.fit_score = {fit_score}]
                  /\ cpc' = "link"
                  /\ UNCHANGED cand_reply
             \/ /\ scored' = scored \cup {Asked({})}
                /\ CandidateFails("MatchingError")
                /\ UNCHANGED frame
    /\ UNCHANGED <<candidates, job_offer_candidates, cand_calls>>
    /\ UNCHANGED <<pipeline_vars, client_vars, parser_vars, pdf_vars, link_vars, update_vars>>

\* job_offer_candidate_in = JobOfferCandidateCreate(...); create; return result
CandLink ==
    /\ cpc = "link"
    /\ \E candidate \in frame.candidate, fit_score \in frame.fit_score :
         LET job_offer_candidate_in ==
                 JobOfferCandidateCreate(frame.job_offer_id, candidate, fit_score)
         IN  \/ /\ job_offer_candidates' = job_offer_candidates \cup
                       {create_link(FreshId(job_offer_candidates), job_offer_candidate_in)}
                /\ cpc' = "done"
                /\ cand_reply' = [status_code |-> HTTP_201_CREATED, error |-> "none"]
             \/ /\ CandidateFails("DatabaseError")
                /\ UNCHANGED job_offer_candidates
    /\ UNCHANGED <<frame, scored, candidates, cand_calls>>
    /\ UNCHANGED <<pipeline_vars, client_vars, parser_vars, pdf_vars, link_vars, update_vars>>

CandidateNext ==
    \/ CandReceive
    \/ CandVerify
    \/ CandUpload
    \/ CandExtract
    \/ CandCreate
    \/ CandMatch
    \/ CandLink

\* The service has just started over a database and an object store that
\* hold one job offer, made by an earlier create_job_offer.
OfferOnFile ==
    /\ pc = "idle"
    /\ document = NoDocument
    /\ title = ""
    /\ file_pos = "start"
    /\ doc_result = Returned(<<>>, 0)
    /\ extracted_text = <<>>
    /\ object_name = 0
    /\ summary_result = JNull
    /\ skills_result = JNull
    /\ job_offer = NoJobOffer
    /\ reply = NoReply
    /\ sent = [summary |-> 0, skills |-> 0]
    /\ removed = {}
    /\ requests = 0
    /\ \E file \in Documents :
         /\ file.content_type = CT_TEXT
         /\ file.payload.size = 6
         /\ storage = {upload_file(file, JOB_OFFERS_BUCKET, "end", 1)}
    /\ \E t \in Titles : job_offers = {create(1, JobOfferCreate(t, JNull, 1).obj)}
    /\ next_id = 2
    /\ job_offers_skills = {}

(***************************************************************************)
(* extract_text_from_pdf as the scheduler sees it: the page loop runs one  *)
(* page per step and gives up control at each await asyncio.sleep(0).      *)
(***************************************************************************)
MaxPages == 12

YIELD_PERIOD == 5

\* What page.extract_text() gives for a page.
PageTexts == {<<>>, <<"Go">>}

\* The PDFs under test: unreadable ones, and readable ones of 0..MaxPages
\* pages of one text.
PdfFiles ==
    {Unreadable} \cup
    {Pdf([i \in 1..n |-> t]) : n \in 0..MaxPages, t \in PageTexts}

\* if page_num % 5 == 0
SleepDue(n) == n % YIELD_PERIOD = 0

PdfIdle ==
    /\ pdf_pc = "idle"
    /\ pdf_reader = Unreadable
    /\ page_num = 0
    /\ pdf_text = <<>>
    /\ yielded = <<>>
    /\ unyielded = 0

PdfInit ==
    /\ pdf_pc = "open"
    /\ pdf_reader \in PdfFiles
    /\ page_num = 0
    /\ pdf_text = <<>>
    /\ yielded = <<>>
    /\ unyielded = 0

\* for page_num in range(len(pdf_reader.pages)): the next iteration, or the
\* return when the range is exhausted.
LoopOrReturn(n) == IF n < Len(pdf_reader.pages) THEN "page" ELSE "returned"

\* seek(0), read(), PyPDF2.PdfReader(io.BytesIO(content)), text = ""
PdfOpen ==
    /\ pdf_pc = "open"
    /\ pdf_pc' = IF pdf_reader.ok THEN LoopOrReturn(0) ELSE "raised"
    /\ UNCHANGED <<pdf_reader, page_num, pdf_text, yielded, unyielded>>
    /\ UNCHANGED <<pipeline_vars, client_vars, parser_vars, candidate_vars, link_vars, update_vars>>

\* page = pdf_reader.pages[page_num]; text += page.extract_text() + "\n";
\* if page_num % 5 == 0: (reach the await)
PdfPage ==
    /\ pdf_pc = "page"
    /\ pdf_text' = pdf_text \o pdf_reader.pages[page_num + 1] \o <<"\n">>
    /\ unyielded' = unyielded + 1
    /\ IF SleepDue(page_num)
       THEN /\ pdf_pc' = "sleep"
            /\ UNCHANGED page_num
       ELSE /\ pdf_pc' = LoopOrReturn(page_num + 1)
            /\ page_num' = page_num + 1
    /\ UNCHANGED <<pdf_reader, yielded>>
    /\ UNCHANGED <<pipeline_vars, client_vars, parser_vars, candidate_vars, link_vars, update_vars>>

\* await asyncio.sleep(0): the scheduler runs, then the loop goes on.
PdfSleep ==
    /\ pdf_pc = "sleep"
    /\ yielded' = Append(yielded, page_num + 1)
    /\ unyielded' = 0
    /\ pdf_pc' = LoopOrReturn(page_num + 1)
    /\ page_num' = page_num + 1
    /\ UNCHANGED <<pdf_reader, pdf_text>>
    /\ UNCHANGED <<pipeline_vars, client_vars, parser_vars, candidate_vars, link_vars, update_vars>>

PdfNext ==
    \/ PdfOpen
    \/ PdfPage
    \/ PdfSleep

(***************************************************************************)
(* link_candidate_to_job_offer, run by concurrent request tasks.  A task   *)
(* runs without interruption from one await to the next; the only await is *)
(* the fit-score request.  The matching service and the link repository    *)
(* are modelled by their interfaces, as for add_candidate_to_job_offer.    *)
(***************************************************************************)
MaxLinkCalls == 2

Tasks == {"t1", "t2"}
LinkOfferIds == {1, 2}
LinkCandidateIds == {1, 2}

HTTP_200_OK == 200

NoLinkReply == [status_code |-> 0, id |-> 0]

\* db.query(...).filter(job_offer_id == ..., candidate_id == ...): the link
\* rows of the pair; .first() of none is None.
LinksOf(table, job_offer_id, candidate_id) ==
    {row \in table : row.job_offer_id = job_offer_id /\ row.candidate_id = candidate_id}

\* existing.fit_score = fit_score; db.add(existing); db.commit(): the row of
\* that id carries the new score (a row no longer stored is stored again).
set_fit_score(table, row, fit_score) ==
    {r \in table : r.id # row.id} \cup {[row EXCEPT !.fit_score = fit_score]}

\* A candidate made through the candidates router: linked to no job offer.
CandidateOnFile ==
    /\ cpc = "idle"
    /\ frame = NewFrame(0, "")
    /\ cand_reply = NoCandidateReply
    /\ scored = {}
    /\ \E name \in CandidateNames :
         candidates = {create_with_skills(1, CandidateCreate(name, <<>>).obj, "")}
    /\ job_offer_candidates = {}
    /\ cand_calls = 0

LinkIdle ==
    /\ link_pc = [t \in Tasks |-> "idle"]
    /\ link_args = [t \in Tasks |-> [job_offer_id |-> 0, candidate_id |-> 0]]
    /\ existing = [t \in Tasks |-> {}]
    /\ link_reply = [t \in Tasks |-> NoLinkReply]
    /\ link_calls = [t \in Tasks |-> 0]

LinkFrame == <<cpc, frame, cand_reply, scored, candidates, cand_calls>>

\* The call of task t from its entry to the await of the fit score: the two
\* existence checks (404), then the query for an existing link.
LinkBegin(t) ==
    /\ link_pc[t] \in {"idle", "done", "failed"}
    /\ link_calls[t] < MaxLinkCalls
    /\ link_calls' = [link_calls EXCEPT ![t] = @ + 1]
    /\ \E job_offer_id \in LinkOfferIds, candidate_id \in LinkCandidateIds :
         LET found == LinksOf(job_offer_candidates, job_offer_id, candidate_id)
         IN  /\ link_args' = [link_args EXCEPT ![t] =
                   [job_offer_id |-> job_offer_id, candidate_id |-> candidate_id]]
             /\ IF get(job_offers, job_offer_id) = {} \/ get(candidates, candidate_id) = {}
                THEN /\ link_pc' = [link_pc EXCEPT ![t] = "failed"]
                     /\ link_reply' = [link_reply EXCEPT ![t] =
                           [status_code |-> HTTP_404_NOT_FOUND, id |-> 0]]
                     /\ existing' = [existing EXCEPT ![t] = {}]
                ELSE /\ link_pc' = [link_pc EXCEPT ![t] =
                           IF found # {} THEN "rescore" ELSE "score"]
                     /\ link_reply' = [link_reply EXCEPT ![t] = NoLinkReply]
                     /\ \E first \in IF found = {} THEN {found} ELSE {{row} : row \in found} :
                          existing' = [existing EXCEPT ![t] = first]
    /\ UNCHANGED <<job_offer_candidates, LinkFrame>>
    /\ UNCHANGED <<pipeline_vars, client_vars, parser_vars, pdf_vars, update_vars>>

\* if existing: the score arrives; the row is updated when it differs;
\* return existing.
LinkRescored(t) ==
    /\ link_pc[t] = "rescore"
    /\ \/ \E fit_score \in FitScores, row \in existing[t] :
            /\ job_offer_candidates' =
                  IF row.fit_score # fit_score
                  THEN set_fit_score(job_offer_candidates, row, fit_score)
                  ELSE job_offer_candidates
            /\ link_pc' = [link_pc EXCEPT ![t] = "done"]
            /\ link_reply' = [link_reply EXCEPT ![t] =
                  [status_code |-> HTTP_200_OK, id |-> row.id]]
       \/ /\ link_pc' = [link_pc EXCEPT ![t] = "failed"]
          /\ link_reply' = [link_reply EXCEPT ![t] =
                [status_code |-> HTTP_500_INTERNAL_SERVER_ERROR, id |-> 0]]
          /\ UNCHANGED job_offer_candidates
    /\ UNCHANGED <<link_args, existing, link_calls, LinkFrame>>
    /\ UNCHANGED <<pipeline_vars, client_vars, parser_vars, pdf_vars, update_vars>>

\* No existing link: the score arrives; JobOfferCandidateCreate, create,
\* return the new row.
LinkScored(t) ==
    /\ link_pc[t] = "score"
    /\ \/ \E fit_score \in FitScores :
            LET job_offer_candidate_in ==
                    [job_offer_id |-> link_args[t].job_offer_id,
                     candidate_id |-> link_args[t].candidate_id,
                     fit_score |-> fit_score]
                job_offer_candidate ==
                    create_link(FreshId(job_offer_candidates), job_offer_candidate_in)
            IN  /\ job_offer_candidates' = job_offer_candidates \cup {job_offer_candidate}
                /\ link_pc' = [link_pc EXCEPT ![t] = "done"]
                /\ link_reply' = [link_reply EXCEPT ![t] =
                      [status_code |-> HTTP_200_OK, id |-> job_offer_candidate.id]]
       \/ /\ link_pc' = [link_pc EXCEPT ![t] = "failed"]
          /\ link_reply' = [link_reply EXCEPT ![t] =
                [status_code |-> HTTP_500_INTERNAL_SERVER_ERROR, id |-> 0]]
          /\ UNCHANGED job_offer_candidates
    /\ UNCHANGED <<link_args, existing, link_calls, LinkFrame>>
    /\ UNCHANGED <<pipeline_vars, client_vars, parser_vars, pdf_vars, update_vars>>

LinkNext ==
    \/ \E t \in Tasks : LinkBegin(t)
    \/ \E t \in Tasks : LinkRescored(t)
    \/ \E t \in Tasks : LinkScored(t)

(***************************************************************************)
(* update_job_offer.  An absent optional argument (None) is the empty set, *)
(* a given one the set of its value.  BaseRepository.get and               *)
(* BaseRepository.update are not part of the sources and are modelled by   *)
(* their interfaces.                                                       *)
(***************************************************************************)
MaxUpdates == 2

CT_XLSX == <<"application/vnd.openxmlformats-office", "doc", "ument.",
             "spreadsheetml.", "sheet">>

\* allowed_types of update_job_offer.
UPDATE_ALLOWED_TYPES == {CT_PDF, CT_MSWORD, CT_DOCX, CT_TEXT, CT_XLS, CT_XLSX}

\* The attributes __init__ gives minio_service.
MinioServiceAttrs == {"client", "job_offers_bucket_name", "candidates_bucket_name"}

\* The parameters of MinioService.upload_file after self: both required.
UploadFileParams == <<"file", "bucket_name">>

The(option) == CHOOSE x \in option : TRUE

UpdateTitles == {{}, {""}, {"Lead developer"}}
UpdateSummaries == {{}, {<<"Short">>}}
UpdateFiles ==
    {{}} \cup
    {{[filename |-> f, content_type |-> ct,
       payload |-> [size |-> 6, utf8 |-> Utf8(<<"Go", " ", "dev">>), pdf |-> Unreadable]]} :
        f \in {"", "offer.pdf"}, ct \in {CT_PDF, CT_XLS, CT_PNG, CT_PDF_UPPER}}
UpdateOfferIds == {1, 2}

UpdateArgs ==
    [job_offer_id : UpdateOfferIds, title : UpdateTitles, summary : UpdateSummaries,
     file : UpdateFiles, replace_file : BOOLEAN]

\* Faulty variant: the summary is left out of the update data.
UpdateDataTitleOnly(new_title, new_summary) == [title |-> new_title, summary |-> {}]

\* update_data = {}; if title is not None: ...; if summary is not None: ...
UpdateData(new_title, new_summary) == [title |-> new_title, summary |-> new_summary]

\* if update_data: a dict with at least one key.
NonEmpty(update_data) == update_data.title # {} \/ update_data.summary # {}

\* job_offer_repository.update(db, db_obj, obj_in=JobOfferUpdate(**update_data)):
\* the row with the fields that were set.
update(db_obj, update_data) ==
    [db_obj EXCEPT
        !.title = IF update_data.title # {} THEN The(update_data.title) ELSE @,
        !.summary = IF update_data.summary # {} THEN The(update_data.summary) ELSE @]

\* JobOfferRepository.update_storage_url
update_storage_url(table, job_offer_id, storage_url) ==
    {IF row.id = job_offer_id THEN [row EXCEPT !.storage_url = storage_url] ELSE row :
        row \in table}

\* if file and file.filename
FileGiven(file) == file # {} /\ The(file).filename # ""

\* minio_service.client.remove_object(minio_service.bucket_name, storage_url)
\* inside try/except Exception: a failure is printed and passed over.
remove_object(store, storage_url) ==
    IF "bucket_name" \in MinioServiceAttrs
    THEN {o \in store : o.object_name # storage_url}
    ELSE store

\* await minio_service.upload_file(file): a call that leaves a required
\* parameter without an argument raises TypeError.
UploadCall(arguments, store) ==
    IF Len(arguments) < Len(UploadFileParams)
    THEN [exc |-> "TypeError", object_name |-> 0, store |-> store]
    ELSE [exc |-> "none", object_name |-> Cardinality(store) + 1,
          store |-> store \cup
              {upload_file(arguments[1], arguments[2], "start", Cardinality(store) + 1)}]

Replied(status_code, cause, table, store) ==
    [status_code |-> status_code, cause |-> cause, job_offers |-> table, storage |-> store]

\* The handler, on the tables it finds; db_ok tells whether the commit of
\* update goes through.
update_job_offer(table, store, a, db_ok) ==
    IF get(table, a.job_offer_id) = {}
    THEN Replied(HTTP_404_NOT_FOUND, "job_offer", table, store)
    ELSE
    LET found == The(get(table, a.job_offer_id))
        update_data == UpdateData(a.title, a.summary)
    IN  IF NonEmpty(update_data) /\ ~db_ok
        THEN Replied(HTTP_500_INTERNAL_SERVER_ERROR, "database", table, store)
        ELSE
        LET updated == IF NonEmpty(update_data) THEN update(found, update_data) ELSE found
            table1 == (table \ {found}) \cup {updated}
        IN  IF ~FileGiven(a.file)
            THEN Replied(HTTP_200_OK, "none", table1, store)
            ELSE IF The(a.file).content_type \notin UPDATE_ALLOWED_TYPES
            THEN Replied(HTTP_400_BAD_REQUEST, "file", table1, store)
            ELSE
            LET store1 == IF a.replace_file /\ updated.storage_url # 0
                          THEN remove_object(store, updated.storage_url)
                          ELSE store
                uploaded == UploadCall(<<The(a.file)>>, store1)
            IN  IF uploaded.exc # "none"
                THEN Replied(HTTP_500_INTERNAL_SERVER_ERROR, "file", table1, store1)
                ELSE Replied(HTTP_200_OK, "none",
                             update_storage_url(table1, a.job_offer_id,
                                                uploaded.object_name),
                             uploaded.store)

NoUpdateArgs ==
    [job_offer_id |-> 0, title |-> {}, summary |-> {}, file |-> {}, replace_file |-> FALSE]

UpdateIdle ==
    /\ update_args = NoUpdateArgs
    /\ update_reply = [status_code |-> 0, cause |-> "none"]
    /\ before = {}
    /\ updates = 0

PipelineLocals ==
    <<pc, document, title, file_pos, doc_result, extracted_text, object_name,
      summary_result, skills_result, job_offer, reply, sent, removed, requests,
      next_id, job_offers_skills>>

\* PUT /{job_offer_id}
UpdateJobOffer ==
    /\ updates < MaxUpdates
    /\ \E a \in UpdateArgs, db_ok \in BOOLEAN :
         LET r == update_job_offer(job_offers, storage, a, db_ok)
         IN  /\ update_args' = a
             /\ before' = job_offers
             /\ job_offers' = r.job_offers
             /\ storage' = r.storage
             /\ update_reply' = [status_code |-> r.status_code, cause |-> r.cause]
    /\ updates' = updates + 1
    /\ UNCHANGED PipelineLocals
    /\ UNCHANGED <<client_vars, parser_vars, candidate_vars, pdf_vars, link_vars>>

(***************************************************************************)
(* Specifications: the job-offer pipeline, the flow client, the parser,    *)
(* the candidate pipeline, PDF extraction, the link calls and the update   *)
(* of a job offer.                                                         *)
(***************************************************************************)
Init == PipelineInit /\ ClientIdle /\ ParserIdle /\ CandidateIdle /\ PdfIdle /\ LinkIdle /\ UpdateIdle

Next == PipelineNext

Spec == Init /\ [][Next]_vars

InitClient == PipelineInit /\ ClientInit /\ ParserIdle /\ CandidateIdle /\ PdfIdle /\ LinkIdle /\ UpdateIdle

NextClient == ClientNext

SpecClient == InitClient /\ [][NextClient]_vars

InitParser == PipelineInit /\ ClientIdle /\ ParserIdle /\ CandidateIdle /\ PdfIdle /\ LinkIdle /\ UpdateIdle

NextParser == CallParse

SpecParser == InitParser /\ [][NextParser]_vars

InitCandidate == OfferOnFile /\ ClientIdle /\ ParserIdle /\ CandidateIdle /\ PdfIdle /\ LinkIdle /\ UpdateIdle

NextCandidate == CandidateNext

SpecCandidate == InitCandidate /\ [][NextCandidate]_vars

InitPdf == PipelineInit /\ ClientIdle /\ ParserIdle /\ CandidateIdle /\ PdfInit /\ LinkIdle /\ UpdateIdle

NextPdf == PdfNext

SpecPdf == InitPdf /\ [][NextPdf]_vars

InitLink == OfferOnFile /\ ClientIdle /\ ParserIdle /\ CandidateOnFile /\ PdfIdle /\ LinkIdle /\ UpdateIdle

NextLink == LinkNext

SpecLink == InitLink /\ [][NextLink]_vars

InitUpdate == OfferOnFile /\ ClientIdle /\ ParserIdle /\ CandidateIdle /\ PdfIdle /\ LinkIdle /\ UpdateIdle

NextUpdate == UpdateJobOffer

SpecUpdate == InitUpdate /\ [][NextUpdate]_vars

(***************************************************************************)
(* Properties of the job-offer pipeline (Spec).                            *)
(***************************************************************************)
FlowErrors == {"LangflowError", "LangflowRequestError"}

\* The payload cannot be decoded the way the declared type asks for.
DecodingFails(d) ==
    \/ d.content_type = CT_PDF /\ ~d.payload.pdf.ok
    \/ d.content_type = CT_TEXT /\ ~d.payload.utf8.ok

\* The document is of an allowed type and its extracted text is empty or
\* all whitespace.
BlankExtraction(d) ==
    /\ d.content_type \in ALLOWED_DOCUMENT_TYPES
    /\ extract_text_from_document(d).exc = "none"
    /\ Strip(extract_text_from_document(d).text) = <<>>

\* C1: once create_job_offer has failed, no job-offer row made by that call
\* is left: a call that had created its row has removed exactly that row by
\* the time its error reply exists, and a call that fails before creating a
\* row removes nothing.
C1_CompensatingRemoval ==
    /\ pc = "created" => \E row \in job_offers : row.id = job_offer
    /\ reply.status_code = HTTP_500_INTERNAL_SERVER_ERROR =>
         /\ pc = "failed"
         /\ \A row \in job_offers : row.id # job_offer
    /\ pc = "failed" /\ job_offer # NoJobOffer => removed = {job_offer}
    /\ job_offer = NoJobOffer => removed = {}

\* A second call fails in bulk_create after its row was created; the row is
\* removed while the first call's row stays.
C1_Witness ==
    /\ pc = "failed"
    /\ reply.error = "KeyError"
    /\ job_offer # NoJobOffer
    /\ removed = {job_offer}
    /\ \E row \in job_offers : row.id # job_offer

\* C2: for a document whose extracted text is empty or all whitespace the
\* call issues no summary-flow request, no skills-flow request, no upload
\* and no job-offer creation: it is rejected in process_document.
C2_BlankTextRejectedBeforeFlows ==
    pc # "idle" /\ BlankExtraction(document) =>
        /\ pc \in {"start", "failed"}
        /\ sent.summary = 0 /\ sent.skills = 0
        /\ object_name = 0
        /\ job_offer = NoJobOffer

\* A text/plain document holding only whitespace has been rejected.
C2_Witness ==
    /\ pc = "failed"
    /\ document.content_type = CT_TEXT
    /\ document.payload.utf8.text = <<" ", "\n">>
    /\ BlankExtraction(document)
    /\ doc_result.detail = DetailNoText
    /\ sent = [summary |-> 0, skills |-> 0]

\* C3 as stated: a disallowed content type or a decoding failure reaches the
\* HTTP caller as a 4xx reply, a flow-call failure as a 5xx reply.
C3_ClientErrorForBadDocuments ==
    pc = "failed" =>
        /\ (document.content_type \notin ALLOWED_DOCUMENT_TYPES \/ DecodingFails(document))
             => reply.status_code \in 400..499
        /\ reply.error \in FlowErrors => reply.status_code \in 500..599

\* C4: process_document raises the validation error (400, wrong-type
\* detail) for every declared type outside the four allowed ones, before any
\* read of the content; for an allowed type whose content cannot be decoded
\* it raises the extraction error (400, extraction detail) and nothing else.
C4_ValidationThenExtractionErrors ==
    pc \notin {"idle", "start"} =>
        /\ document.content_type \notin ALLOWED_DOCUMENT_TYPES =>
             /\ doc_result.exc = "HTTPException"
             /\ doc_result.status = HTTP_400_BAD_REQUEST
             /\ doc_result.detail = DetailBadType
             /\ doc_result.reads = 0
        /\ document.content_type \in ALLOWED_DOCUMENT_TYPES /\ DecodingFails(document) =>
             /\ doc_result.exc = "HTTPException"
             /\ doc_result.status = HTTP_400_BAD_REQUEST
             /\ doc_result.detail = DetailExtract

\* A text/plain payload that is not valid UTF-8 has been reported as an
\* extraction error.
C4_Witness ==
    /\ pc = "failed"
    /\ document.content_type = CT_TEXT
    /\ ~document.payload.utf8.ok
    /\ doc_result.detail = DetailExtract
    /\ doc_result.reads = 1

\* The skills field a text offers, directly or in its fenced block, if any;
\* and whether it is a list of records carrying the three expected fields.
OffersSkills(text) ==
    \/ json_loads(text).ok /\ HasKey(json_loads(text).val, <<"skills">>)
    \/ /\ FenceSearch(text).found
       /\ json_loads(FenceSearch(text).group1).ok
       /\ HasKey(json_loads(FenceSearch(text).group1).val, <<"skills">>)

WellFormedRecords(val) ==
    /\ val.t = "arr"
    /\ \A i \in 1..Len(val.v) :
         /\ val.v[i].t = "obj"
         /\ \A k \in 1..3 : HasKey(val.v[i], <<RequiredSkillKeys[k]>>)

\* The skills text the call in progress received.
ReceivedSkillsText == LeafText(skills_result).val

\* C6 as stated: when the skills text of a call that created its job offer
\* cannot be turned into well-formed skill records, the call still ends
\* with success, its job-offer row kept and no skill row stored.
C6_SkillFailuresSwallowed ==
    ( /\ pc \in {"done", "failed"}
      /\ job_offer # NoJobOffer
      /\ ReceivedSkillsText.t = "str"
      /\ \/ ~OffersSkills(ReceivedSkillsText.v)
         \/ ~WellFormedRecords(parse_skills_response(ReceivedSkillsText).value) )
    => /\ pc = "done"
       /\ reply.status_code = 201
       /\ \E row \in job_offers : row.id = job_offer
       /\ \A row \in job_offers_skills : row.job_offer_id # job_offer

\* C10: no retry.  A call sends at most one summary-flow request and at most
\* one skills-flow request; a flow that has been run has sent exactly one;
\* and a flow failure ends the call at once, with one request sent to the
\* failing flow and none sent after it.
C10_NoRetry ==
    /\ sent.summary <= 1 /\ sent.skills <= 1
    /\ pc \in {"skills", "persist", "created", "done"} => sent.summary = 1
    /\ pc \in {"persist", "created", "done"} => sent.skills = 1
    /\ reply.error \in FlowErrors =>
         /\ pc = "failed"
         /\ sent.summary = 1
         /\ summary_result = JNull => sent.skills = 0

\* The summary flow answered 500: the call failed after that one request.
C10_Witness ==
    /\ pc = "failed"
    /\ reply.error = "LangflowError"
    /\ reply.error_status = 500
    /\ sent = [summary |-> 1, skills |-> 0]

(***************************************************************************)
(* Properties of parse_skills_response (SpecParser).                       *)
(***************************************************************************)
NotJsonAtAll == <<"not", " ", "json", " ", "at", " ", "all">>

FencedEmptySkills == <<FENCE, "json", "\n">> \o SkillsDoc(<<"[", "]">>) \o <<"\n", FENCE>>

\* C5: parse_skills_response returns for every text, and returns the empty
\* list whenever neither the decoded text nor a fenced json block offers a
\* skills field; so for "not json at all", for a fenced {"skills": []} and
\* for JSON that is no object with a skills field.
C5_ParseNeverFails ==
    parsed.exc # "pending" =>
        /\ parsed.exc = "none"
        /\ ~OffersSkills(parse_arg.v) => parsed.value = EmptyList
        /\ parse_arg.v \in {NotJsonAtAll, FencedEmptySkills, <<"[", "1", "]">>}
             => parsed.value = EmptyList

\* A fenced block that does not decode has been parsed to the empty list.
C5_Witness ==
    /\ parse_arg.t = "str"
    /\ ~json_loads(parse_arg.v).ok
    /\ FenceSearch(parse_arg.v).found
    /\ ~json_loads(FenceSearch(parse_arg.v).group1).ok
    /\ parsed = Return(EmptyList)

(***************************************************************************)
(* Properties of the flow client (SpecClient).                             *)
(***************************************************************************)
\* The last call was a request whose transport delivered a response.
ResponseReceived ==
    /\ call.phase = "finished"
    /\ call.mode = "request"
    /\ outcome.exc # "RuntimeError"
    /\ call.remote.kind = "response"
    /\ call.remote.latency <= TransportTimeout(self, call.options)

\* C7 as stated: a non-2xx response raises LangflowError with the status
\* code, the status text and the raw response, and every 2xx response
\* returns its decoded JSON body without raising.
C7_EverySuccessReturnsJson ==
    ResponseReceived =>
        LET r == call.remote.response
        IN  /\ r.status_code \notin 200..299 =>
                 /\ outcome.exc = "LangflowError"
                 /\ outcome.message = <<r.reason_phrase, r.status_code>>
                 /\ outcome.response = r
            /\ r.status_code \in 200..299 =>
                 outcome.exc = "none" /\ outcome.value = r.body.value

\* C7, amended: a request that receives a non-2xx response raises
\* LangflowError (not LangflowRequestError) carrying the status code, the
\* status text and the raw response; one that receives a 2xx response never
\* raises that error: it returns the decoded body when the body is JSON,
\* and raises LangflowRequestError ("Unexpected error", holding the decoding
\* error) when the body is not JSON.
C7_StatusErrors ==
    ResponseReceived =>
        LET r == call.remote.response
        IN  /\ r.status_code \notin 200..299 =>
                 /\ outcome.exc = "LangflowError"
                 /\ outcome.message = <<r.reason_phrase, r.status_code>>
                 /\ outcome.response = r
            /\ r.status_code \in 200..299 =>
                 /\ outcome.exc # "LangflowError"
                 /\ r.body.json => outcome.exc = "none" /\ outcome.value = r.body.value
                 /\ ~r.body.json =>
                      /\ outcome.exc = "LangflowRequestError"
                      /\ outcome.message = <<"Unexpected error", 0>>
                      /\ outcome.original_error = "JSONDecodeError"

\* A redirect answer has been raised as LangflowError with its response.
C7_Witness ==
    /\ ResponseReceived
    /\ call.remote.response.status_code = 301
    /\ outcome.exc = "LangflowError"
    /\ outcome.response = call.remote.response

\* The effective timeout of the last call: the override if given, else the
\* client default.
CallTimeout == IF call.options.timeout # 0 THEN call.options.timeout ELSE self.timeout

\* C8 as stated: every request is cut off at its effective timeout,
\* whichever transport the client has: it ends in a LangflowRequestError
\* naming that timeout exactly when the remote side takes longer.
C8_TimeoutEnforcedOnEveryCall ==
    call.phase = "finished" /\ call.mode = "request" /\ outcome.exc # "RuntimeError" =>
        ( call.remote.latency > CallTimeout
            <=> /\ outcome.exc = "LangflowRequestError"
                /\ outcome.message = <<"Request timed out after", CallTimeout>> )

\* C9 as stated: every failing call, after any earlier calls on the client,
\* ends in LangflowError or LangflowRequestError.
C9_ClosedTaxonomy ==
    call.phase = "finished" /\ outcome.exc # "none" => outcome.exc \in FlowErrors

\* The last call handed a request to its transport.
RequestOnWire == call.mode = "request" /\ wire # NoRequest

\* Headers the call supplied and headers the client was constructed with.
CallSupplied == call.options.headers
Configured == opts.default_headers

\* C11 as stated: in the effective headers of every call a header given both
\* as default and per call has the per-call value, and x-api-key is always
\* present and holds the API key, for every client configuration.
C11_ApiKeyAlwaysPresent ==
    RequestOnWire =>
        /\ \A k \in (DOMAIN CallSupplied \cap DOMAIN self.default_headers)
                        \ {API_KEY_HEADER} :
               wire.headers[k] = CallSupplied[k]
        /\ API_KEY_HEADER \in DOMAIN wire.headers
        /\ wire.headers[API_KEY_HEADER] = self.api_key

\* C11, amended: a header given both as default and per call has the
\* per-call value; a client that has an API key sends it under x-api-key,
\* overriding any value the caller supplied for that header; a client
\* without an API key adds no x-api-key header and leaves a caller-supplied
\* one as it is.
C11_HeaderPrecedence ==
    RequestOnWire =>
        /\ \A k \in (DOMAIN CallSupplied \cap DOMAIN self.default_headers)
                        \ {API_KEY_HEADER} :
               wire.headers[k] = CallSupplied[k]
        /\ self.api_key # "" =>
               /\ API_KEY_HEADER \in DOMAIN wire.headers
               /\ wire.headers[API_KEY_HEADER] = self.api_key
        /\ self.api_key = "" =>
               /\ API_KEY_HEADER \in DOMAIN wire.headers
                    <=> API_KEY_HEADER \in DOMAIN CallSupplied
               /\ API_KEY_HEADER \in DOMAIN CallSupplied =>
                    wire.headers[API_KEY_HEADER] = CallSupplied[API_KEY_HEADER]

\* Both cases at once are two calls; this one is the override of a
\* caller-supplied x-api-key by the client's key.
C11_Witness ==
    /\ RequestOnWire
    /\ self.api_key = "secret"
    /\ API_KEY_HEADER \in DOMAIN CallSupplied
    /\ CallSupplied[API_KEY_HEADER] = "mine"
    /\ wire.headers[API_KEY_HEADER] = "secret"

\* C12 as stated: for a client configured with default headers D and an API
\* key, and call-supplied headers C, the effective headers have exactly the
\* keys of D, the keys of C and x-api-key.
C12_OnlyThreeInputs ==
    RequestOnWire /\ self.api_key # "" =>
        DOMAIN wire.headers
            = DOMAIN Configured \cup DOMAIN CallSupplied \cup {API_KEY_HEADER}

\* C12, amended: the effective headers have exactly the keys of D, the
\* keys of C, x-api-key and User-Agent: the client identifier that __init__
\* generates when D has no User-Agent.  D = {A:1}, C = {A:2, B:3} gives
\* {A:2, B:3, User-Agent:<generated>, x-api-key:<key>}.
C12_ThreeInputsAndUserAgent ==
    RequestOnWire /\ self.api_key # "" =>
        /\ DOMAIN wire.headers
             = DOMAIN Configured \cup DOMAIN CallSupplied
                 \cup {API_KEY_HEADER, "User-Agent"}
        /\ \A k \in DOMAIN wire.headers :
             wire.headers[k] =
                 IF k = API_KEY_HEADER THEN self.api_key
                 ELSE IF k \in DOMAIN CallSupplied THEN CallSupplied[k]
                 ELSE IF k \in DOMAIN Configured THEN Configured[k]
                 ELSE _get_user_agent

\* The example of the claim: D = {A:1}, C = {A:2, B:3}.
C12_Witness ==
    /\ RequestOnWire
    /\ self.api_key = "secret"
    /\ Configured = [k \in {"A"} |-> "1"]
    /\ DOMAIN CallSupplied = {"A", "B"}
    /\ DOMAIN wire.headers = {"A", "B", "User-Agent", API_KEY_HEADER}
    /\ wire.headers["A"] = "2" /\ wire.headers["B"] = "3"
    /\ wire.headers["User-Agent"] = _get_user_agent
    /\ wire.headers[API_KEY_HEADER] = "secret"

\* The last call was a stream call whose transport was entered and whose
\* remote side answered within the transport's timeout.
StreamAnswered ==
    /\ call.phase = "finished"
    /\ call.mode = "stream"
    /\ outcome.exc # "RuntimeError"
    /\ call.remote.kind = "response"
    /\ call.remote.latency <= TransportTimeout(self, call.options)

\* C13 as stated: a streaming call answered with a 2xx status returns a
\* stream whose events are, in order, the decoded value of every line that
\* is not blank and decodes; blank and undecodable lines are skipped.
C13_StreamYieldsDecodedLines ==
    StreamAnswered /\ call.remote.response.status_code \in 200..299 =>
        /\ outcome.exc = "none"
        /\ outcome.value = JArr(stream_response(aiter_lines(call.remote.response)))

\* C15 as stated: a streaming call answered with a 2xx status returns its
\* stream with the transport still open, for the caller to consume.
C15_StreamReturnedOpen ==
    StreamAnswered /\ call.remote.response.status_code \in 200..299 =>
        /\ outcome.exc = "none"
        /\ transport = "OPENED"

\* C20 as stated: a streaming call answered with a non-2xx status raises
\* LangflowError (not LangflowRequestError) whose message holds the status
\* and the drained body, with the raw response, and returns no stream.
C20_StreamStatusError ==
    StreamAnswered /\ call.remote.response.status_code \notin 200..299 =>
        LET r == call.remote.response
        IN  /\ outcome.exc = "LangflowError"
            /\ outcome.message = <<r.reason_phrase, r.status_code, r.body>>
            /\ outcome.response = r
            /\ outcome.value = JNull

\* The state a client's transport is in before its first call.
Unused == IF self.http_client.injected THEN "UNOPENED" ELSE "none"

\* What a call returns or raises, leaving aside the state it leaves behind.
Observed(o) == [o EXCEPT !.http_state = "any"]

\* C16 as stated: the outcome of every call is the outcome the same call
\* with the same remote behaviour has on a client never used before, and a
\* request made after an earlier call still reaches the remote service.
C16_NoCrossCallState ==
    call.phase = "finished" =>
        /\ Observed(outcome)
             = Observed(Run(call.mode, call.options, call.remote, Unused))
        /\ call.mode = "request" => outcome.sent = 1

\* C17: every call releases the transport it used.  While a call is in
\* progress its transport is open; once the call has returned or raised
\* (success, LangflowError, LangflowRequestError) the transport it entered
\* is closed, and no transport of the client is left open.
C17_TransportReleased ==
    /\ call.phase = "pending" => transport = "OPENED"
    /\ call.phase = "finished" =>
         /\ transport # "OPENED"
         /\ http_state # "OPENED"
         /\ outcome.exc # "RuntimeError" => transport = "CLOSED"
         /\ self.http_client.injected => http_state = "CLOSED"

\* A request on a per-call transport timed out; the transport is closed.
C17_Witness ==
    /\ call.phase = "finished"
    /\ call.mode = "request"
    /\ ~self.http_client.injected
    /\ outcome.exc = "LangflowRequestError"
    /\ outcome.original_error = "TimeoutException"
    /\ transport = "CLOSED"

\* C18: create_job_offer takes its steps in one order, each after the
\* previous one succeeded: the upload after the text was extracted, the
\* summary request after the upload, the skills request after the summary
\* flow returned, the job-offer row after both flows returned and both leaf
\* texts were found, its skill rows last; after a failed summary flow no
\* skills request is sent.
C18_StepsInOrder ==
    /\ pc \in {"upload", "summary", "skills", "persist", "created", "done"} =>
         doc_result.exc = "none" /\ extracted_text = doc_result.text
    /\ object_name # 0 => doc_result.exc = "none"
    /\ sent.summary > 0 => object_name # 0
    /\ sent.skills > 0 => sent.summary = 1 /\ summary_result # JNull
    /\ summary_result = JNull => sent.skills = 0
    /\ job_offer # NoJobOffer =>
         /\ sent.skills = 1 /\ skills_result # JNull
         /\ LeafText(summary_result).ok /\ LeafText(skills_result).ok
    /\ (\E row \in job_offers_skills : row.job_offer_id = job_offer) =>
         /\ pc = "done"
         /\ \E row \in job_offers : row.id = job_offer

\* A call went through every step and stored a skill row.
C18_Witness ==
    /\ pc = "done"
    /\ object_name # 0
    /\ sent = [summary |-> 1, skills |-> 1]
    /\ \E row \in job_offers : row.id = job_offer
    /\ \E row \in job_offers_skills : row.job_offer_id = job_offer

\* The whole text, or its fenced block, decodes to an object with a skills
\* field.
DirectYieldsSkills(text) ==
    json_loads(text).ok /\ HasKey(json_loads(text).val, <<"skills">>)

FencedYieldsSkills(text) ==
    /\ FenceSearch(text).found
    /\ json_loads(FenceSearch(text).group1).ok
    /\ HasKey(json_loads(FenceSearch(text).group1).val, <<"skills">>)

Uploaded == {o \in storage : o.object_name = object_name}

\* C23: the except clause of create_job_offer compensates the job-offer row
\* only: once a call has failed after its upload succeeded, the uploaded
\* object is still in storage and no job-offer row refers to it.
C23_UploadNotCompensated ==
    pc = "failed" /\ object_name # 0 =>
        /\ Uploaded # {}
        /\ \A row \in job_offers : row.storage_url # object_name

\* A call failed at a flow, after its upload and before any row was made.
C23_Witness ==
    /\ pc = "failed"
    /\ object_name # 0
    /\ Uploaded # {}
    /\ sent.summary > 0
    /\ job_offer = NoJobOffer

(***************************************************************************)
(* Properties of the candidate pipeline (SpecCandidate).                   *)
(***************************************************************************)
\* C14: in add_candidate_to_job_offer the fit score is requested only once
\* the candidate record exists, and the link record is created only once
\* the fit score has been received: every score request names a candidate
\* id that was persisted when the request was made, every link row carries
\* the score answered to a request for its job offer and candidate, and the
\* call stands at the score request only with its candidate stored and at
\* the link creation only with its score bound.
C14_ScoreAfterCandidateLinkAfterScore ==
    /\ \A q \in scored : q.candidate_id \in q.persisted
    /\ \A link \in job_offer_candidates :
         \E q \in scored :
            /\ q.job_offer_id = link.job_offer_id
            /\ q.candidate_id = link.candidate_id
            /\ q.answer = {link.fit_score}
    /\ cpc = "match" => frame.candidate # {} /\ frame.candidate \subseteq candidates
    /\ cpc = "link" => frame.fit_score # {} /\ frame.candidate \subseteq candidates
    /\ Cardinality(job_offer_candidates) <= Cardinality({q \in scored : q.answer # {}})

\* A second call has answered 201: its candidate was stored, scored and
\* linked, after an earlier call had already stored a candidate.
C14_Witness ==
    /\ cpc = "done"
    /\ cand_reply.status_code = HTTP_201_CREATED
    /\ Cardinality(candidates) = 2
    /\ \E link \in job_offer_candidates, candidate \in frame.candidate :
         /\ link.candidate_id = candidate.id
         /\ candidate.id = 2
         /\ {link.fit_score} = frame.fit_score
         /\ \E q \in scored : q.candidate_id = 2 /\ q.answer = frame.fit_score

(***************************************************************************)
(* Properties of extract_text_from_pdf (SpecPdf).                          *)
(***************************************************************************)
\* C21: PDF extraction yields after every 5th page: it never extracts more
\* than 5 pages in a row without a yield, the yields fall after pages 5, 10,
\* 15, ..., and a PDF of 6 pages or more has yielded at least once by the
\* time the text is returned.
C21_YieldAfterEveryFifthPage ==
    /\ unyielded <= YIELD_PERIOD
    /\ \A i \in DOMAIN yielded : yielded[i] = YIELD_PERIOD * i
    /\ pdf_pc = "returned" /\ Len(pdf_reader.pages) >= 6 => yielded # <<>>

(***************************************************************************)
(* Properties of link_candidate_to_job_offer (SpecLink).                   *)
(***************************************************************************)
\* C22: for every job offer and candidate, and however the calls of
\* link_candidate_to_job_offer interleave, at most one link row exists for
\* the pair; a call that found an existing link answers with that row and
\* has created none.
C22_AtMostOneLinkPerPair ==
    /\ \A j \in LinkOfferIds, c \in LinkCandidateIds :
         Cardinality(LinksOf(job_offer_candidates, j, c)) <= 1
    /\ \A t \in Tasks :
         link_pc[t] = "done" /\ existing[t] # {} =>
            link_reply[t].id \in Ids(existing[t])

(***************************************************************************)
(* Properties of update_job_offer (SpecUpdate).                            *)
(***************************************************************************)
\* The row of the call as the call found it.
RowBefore == The(get(before, update_args.job_offer_id))

\* The call asked for a title or a summary other than the stored one.
AsksChange ==
    \/ update_args.title # {} /\ update_args.title # {RowBefore.title}
    \/ update_args.summary # {} /\ update_args.summary # {RowBefore.summary}

FileError ==
    /\ update_reply.status_code \in {HTTP_400_BAD_REQUEST, HTTP_500_INTERNAL_SERVER_ERROR}
    /\ update_reply.cause = "file"

====
